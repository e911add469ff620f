CONSTANT None = None
SPECIFICATION ProgressSpec
CHECK_DEADLOCK FALSE
PROPERTIES CallbacksServed  LocksProgress MessagesProgress 
