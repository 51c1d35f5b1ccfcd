SPECIFICATION Spec
CONSTANTS
  Packet = 2
  InfoLen = 2
  Sizes = {0, 1, 2, 3}
  Offsets = {0, 1}
  MaxTrouble = 0
INVARIANT CountsWhatItSent
