---------------------------- MODULE DeviceRecord ----------------------------
(***************************************************************************)
(* What the tables record of one device, and what a reader may rely on:    *)
(* the type in the device row with the confidence beside it, the software  *)
(* table, and the history of each name in it.  Who writes them is in       *)
(* Inventory.                                                              *)
(*                                                                         *)
(* Modelled from apps/api/app/modules/discovery/service.py.                *)
(***************************************************************************)
EXTENDS FiniteSets

CONSTANTS
    Names,          \* names of software
    Versions,       \* their versions
    NoVersion       \* the name has no history, or the history ends with its removal

ASSUME NoVersionIsNone == NoVersion \notin Versions

ASSUME FinitelyManyVersions == IsFiniteSet(Versions)

VARIABLES
    type, confidence,   \* device_type, identification_confidence
    installed,          \* rows of device_installed_software
    reported,           \* the version the software history ends with, per name
    proven,             \* types the device itself has reported
    crossed,            \* two sweeps have had the device in hand at once
    twofold             \* names found in two versions since they were last absent

VersionsIn(list, n) == {v \in Versions : <<n, v>> \in list}

----------------------------------------------------------------------------
(* Properties *)

\* "Never returns CONFIRMED from a name/port/vendor heuristic alone"
\* (service.py:434-436): whatever later sweeps guess, collections rewrite and
\* sessions write from rows they read before, the type of a confirmed device is
\* one the device has reported itself, unless two sweeps had it in hand at once:
\* then the confidence of one may stand beside the type of the other.
ConfirmedIsProven == (confidence = "confirmed" /\ ~crossed) => type \in proven

\* The software history of a device ends with what is installed, for every name
\* that was never found in two versions at once since it was last absent
\* (service.py:2006-2030).
HistoryReplays ==
    \A n \in Names \ twofold :
        VersionsIn(installed, n) = IF reported[n] = NoVersion THEN {} ELSE {reported[n]}
=============================================================================
