SPECIFICATION UsbSpec
INVARIANT DisconnectFrees
CHECK_DEADLOCK FALSE
