----------------------------- MODULE ManagerCore -----------------------------
(***************************************************************************)
(* The two-tier cache between the panels of the terminal user interface    *)
(* and the debug server, crates/tui/src/data/manager/core.rs.  A manager   *)
(* belongs to the thread that draws and handles keys and never waits: it   *)
(* only tries the lock of its core.  The core belongs to a background task *)
(* (crates/tui/src/lib.rs) that holds the lock while it asks the server.   *)
(* Both tiers hold facts <<kind, key, value>>.                             *)
(***************************************************************************)
EXTENDS Naturals

VARIABLES
  local,         \* ManagerTr's state: the facts of the manager
  core,          \* ManagerCore's state: the facts of the core
  pending,       \* the manager's pending_requests
  core_pending,  \* the core's pending_requests
  batch          \* the requests taken and not answered yet: the lock is held

managerVars == <<local, core, pending, core_pending, batch>>

(* Once known was fetched and pulled, and asked was pushed. *)
ManagerInit(known, asked) ==
  /\ local = known /\ core = known
  /\ batch = {} /\ pending = {} /\ core_pending = asked

locked == batch # {}

(* FetchCache *)
Cached(cache, kind, key) == \E f \in cache : f[1] = kind /\ f[2] = key

Cell(cache, kind, key) == (CHOOSE f \in cache : f[1] = kind /\ f[2] = key)[3]

(* update: an entry that is there already stays as it is. *)
Updated(cache, reference) ==
  cache \union {f \in reference : ~Cached(cache, f[1], f[2])}
-----------------------------------------------------------------------------
(* What the manager's own thread does inside one of its operations. *)

(* pull_from_core, with try_read *)
Pulled == IF locked THEN local ELSE Updated(local, core)

(* new_fetching_request, with try_write *)
NewFetchingRequests(requests) ==
  IF locked
    THEN pending' = pending \union requests /\ UNCHANGED core_pending
    ELSE core_pending' = core_pending \union requests /\ UNCHANGED pending

(* One tick of the event loop: pull, push, pull.  The requests pushed while
   the lock is held are gone. *)
Tick ==
  /\ local' = Pulled
  /\ pending' = {}
  /\ core_pending' = IF locked THEN core_pending ELSE core_pending \union pending
  /\ UNCHANGED <<core, batch>>

(* The background task: process_pending_requests, with the lock from the first
   request to the last; a request that fails is dropped.  fetched is the
   core's cache after fetch_data of each of them. *)
Take ==
  /\ ~locked /\ core_pending # {}
  /\ batch' = core_pending
  /\ core_pending' = {}
  /\ UNCHANGED <<local, core, pending>>

Finish(fetched) ==
  /\ locked
  /\ core' = fetched
  /\ batch' = {}
  /\ UNCHANGED <<local, pending, core_pending>>
=============================================================================
