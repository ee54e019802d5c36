---------------------------- MODULE MCMergePool ----------------------------
(***************************************************************************)
(* Instances of MergePool for TLC. Constants whose values are not model    *)
(* values are named here and chosen in the .cfg files.                     *)
(***************************************************************************)
EXTENDS MergeRefinement

CONSTANTS b1, b2, b3

TwoBanks == <<b1, b2>>
ThreeBanks == <<b1, b2, b3>>

\* config.py DEFAULT_CONFIG: precedence: []
DefaultPrecedence == << >>

\* Preferred banks come first in the manifest.
ManifestOrder == <<b1, b2>>

\* The bank handled last is the preferred one.
LastPreferred == <<b2, b1>>

\* One bank is not listed: precedence_of puts it level with the first one.
OneUnlisted == <<b2, b3>>

============================================================================
