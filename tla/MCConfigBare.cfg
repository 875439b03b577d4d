\* Files with lines that have no "="; not one of the runs of PROJECT.json.
CONSTANTS
  UserFiles <- MCBareFiles
  CommandLines <- MCCommandLines
  Words <- MCWords
  Stoi <- MCStoi
  TooLong = {"99999999999"}
  Directories = {"/src", "/var"}
SPECIFICATION Spec
INVARIANT MeansWhatItSays
