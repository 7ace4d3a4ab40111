CONSTANTS
  Entries = {e1}
  Settings <- TriedSettings
SPECIFICATION FairSpec
INVARIANTS TypeOK ReadyBeforeUse ListenersDrained
PROPERTIES InterruptEnds LoopsEnd
