-------------------------------- MODULE Apps --------------------------------
\* The apps that connect to the camera, by the ids that they give themselves.
CONSTANTS
  Ids,
  NoId   \* the empty string

ASSUME AppsAssumption == NoId \notin Ids
=============================================================================
