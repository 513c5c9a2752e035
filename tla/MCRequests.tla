----------------------------- MODULE MCRequests -----------------------------
(* The calls of the host for TLC.  What setting up a config computes       *)
(* depends on no state, so it is looked at where that call has yet to come.*)
EXTENDS RequestFiles, ProfileMerge

(* A source of two lists has any two entries.                              *)
ShortLists == {{}} \cup {{e} : e \in Entries}

(* loadConfigWithBase: reading config.yaml back gives the overlay with the *)
(* profile's large sections and its rules after the overlay's.             *)
ConfigReadsBack == Before("setup") => WrittenIsMerged
=============================================================================
