---------------------------------- MODULE Api ----------------------------------
(***************************************************************************)
(* Four parts of the API that share no state: fetching, the way in, the    *)
(* records edited by hand, and the companies and contacts.  A behaviour    *)
(* runs one of them, so that their state spaces add up instead of          *)
(* multiplying.                                                            *)
(***************************************************************************)
EXTENDS Fetcher, Access, Records, Directory

VARIABLE part

parts == <<fetcherVars, accessVars, recordVars, directoryVars>>

ApiInit == /\ FetcherInit /\ AccessInit /\ RecordsInit /\ DirectoryInit
           /\ part \in {"fetcher", "access", "records", "directory"}

ApiNext ==
  /\ UNCHANGED part
  /\ \/ part = "fetcher" /\ FetcherNext /\ UNCHANGED <<accessVars, recordVars, directoryVars>>
     \/ part = "access" /\ AccessNext /\ UNCHANGED <<fetcherVars, recordVars, directoryVars>>
     \/ part = "records" /\ RecordsNext /\ UNCHANGED <<fetcherVars, accessVars, directoryVars>>
     \/ part = "directory" /\ DirectoryNext /\ UNCHANGED <<fetcherVars, accessVars, recordVars>>

ApiSpec == ApiInit /\ [][ApiNext]_<<parts, part>>

\* Every part keeps the shape of its state, whichever rows, drafts and copies its sessions
\* hold; what each conjunct says beyond types stands at its definition.
ApiTypeOK == FetcherTypeOK /\ AccessTypeOK /\ RecordsTypeOK /\ DirectoryTypeOK
=============================================================================
