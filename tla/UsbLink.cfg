SPECIFICATION UsbSpec
PROPERTY CarrierFollows
CHECK_DEADLOCK FALSE
