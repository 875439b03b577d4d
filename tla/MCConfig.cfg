CONSTANTS
  UserFiles <- MCUserFiles
  CommandLines <- MCCommandLines
  Words <- MCWords
  Stoi <- MCStoi
  TooLong = {"99999999999"}
  Directories = {"/src", "/var"}
SPECIFICATION Spec
INVARIANTS TypeOK MeansWhatItSays SoundStarts NotOnTemplate
