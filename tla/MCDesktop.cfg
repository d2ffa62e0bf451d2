SPECIFICATION Spec
INVARIANTS RightPerson PictureIsOwn ChannelTrue XferTrue StreamWhole HeapSound
PROPERTIES NothingLost StepsKeep
CHECK_DEADLOCK FALSE
