\* An entity is removed while an update of it waits in the queue.
SPECIFICATION Spec
CONSTANTS
    Client = {c1}
    Entity = {e}
    Writer = {t1}
    Failing = {}
    MaxChanges = 2
    Nothing = Nothing
PROPERTIES RemovedEntityUnqueued
CHECK_DEADLOCK FALSE
