\* The sizes of the code (512, 126 and 256), scaled: a frame of the serial port
\* may get a longer header, and exceed the buffer, which ends the model.
CONSTANTS
  Kinds = {"text", "closing", "ping", "unmasked"}
  MaxFrames = 2
  Networks = {"one", "whole", "any"}
  Size = 40
  Short = 8
  SbufSize = 10
  Texts = {3, 5}
SPECIFICATION ChannelSpec
INVARIANTS TextInOrder HandledInOrder
PROPERTY TextIsHandled
CHECK_DEADLOCK FALSE
