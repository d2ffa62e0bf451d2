SPECIFICATION Spec
PROPERTIES FrameDelivered Served Joined
CHECK_DEADLOCK FALSE
