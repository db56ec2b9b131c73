----------------------------- MODULE MarketIndex -----------------------------
(***************************************************************************)
(* Listings of marketplace_service: the rows, the Redis set that says which*)
(* are available, and the denormalised rows of the smart search.  A        *)
(* handler commits its row first and then writes the set.                  *)
(***************************************************************************)
EXTENDS Naturals, FiniteSets

CONSTANTS
    Listings,
    MarketWorkers,  \* requests that may run at a time
    Syncs,          \* runs of sync_availability_index that may overlap
    NoListing,
    HostReadable    \* host_service answers marketplace_service's check of a host

ASSUME MarketAssumption == NoListing \notin Listings /\ HostReadable \in BOOLEAN

VARIABLES
    hostOk,   \* the host is verified
    row,      \* the listings rows
    index,    \* the Redis set kynetic:listings:available
    request,  \* what each request has read, or must still write
    syncing,  \* what each running sync_availability_index has read
    found,    \* availability_status of the searchable_listings rows
    finding   \* what a running smart-search sync has read

marketVars == <<hostOk, row, index, request, syncing, found, finding>>

ListingStatus == {"draft", "active", "paused", "delisted"}
NoChange      == "nochange"
Request == [op: {"none", "create", "update", "delist", "mark"},
            listing: Listings \cup {NoListing},
            set: ListingStatus \cup {NoChange},     \* the body's status
            on: BOOLEAN]                            \* mark_available
NoRequest == [op |-> "none", listing |-> NoListing, set |-> NoChange, on |-> FALSE]
NotRunning == {NoListing}
NoFinding  == [listing |-> NoListing, status |-> "draft"]

MarketInit ==
    /\ hostOk = TRUE
    /\ row = [l \in Listings |-> "none"] /\ index = {}
    /\ request = [w \in MarketWorkers |-> NoRequest]
    /\ syncing = [y \in Syncs |-> NotRunning]
    /\ found = [l \in Listings |-> "none"] /\ finding = NoFinding

-----------------------------------------------------------------------------
(* The routes.                                                              *)

Set(w, r) == request' = [request EXCEPT ![w] = r]
Mark(l, on) == [NoRequest EXCEPT !.op = "mark", !.listing = l, !.on = on]

\* _assert_host_verified, over HTTP.
CreateReads(w, l) ==
    /\ HostReadable /\ hostOk
    /\ request[w] = NoRequest /\ row[l] = "none"
    /\ \A v \in MarketWorkers : request[v].listing # l
    /\ Set(w, [NoRequest EXCEPT !.op = "create", !.listing = l])
    /\ UNCHANGED <<hostOk, row, index, syncing, found, finding>>

MUT_CreateCommits(w) ==
    /\ request[w].op = "create"
    /\ index' = index \cup {request[w].listing}
    /\ Set(w, Mark(request[w].listing, TRUE))
    /\ \/ row' = [row EXCEPT ![request[w].listing] = "active"]
       \/ UNCHANGED row
    /\ UNCHANGED <<hostOk, syncing, found, finding>>

\* The host may have been suspended since.
CreateCommits(w) ==
    /\ request[w].op = "create"
    /\ row' = [row EXCEPT ![request[w].listing] = "active"]
    /\ Set(w, Mark(request[w].listing, TRUE))
    /\ UNCHANGED <<hostOk, index, syncing, found, finding>>

UpdateReads(w, l, s) ==
    /\ request[w] = NoRequest /\ row[l] # "none"
    /\ Set(w, [NoRequest EXCEPT !.op = "update", !.listing = l,
                                !.set = IF s = row[l] THEN NoChange ELSE s])
    /\ UNCHANGED <<hostOk, row, index, syncing, found, finding>>

\* Only a changed status is written, over a status set meanwhile; the row is read
\* back and decides what is marked.  A delisted listing may be made active.
UpdateCommits(w) ==
    LET r == request[w] IN
    /\ r.op = "update"
    /\ row' = IF r.set = NoChange THEN row ELSE [row EXCEPT ![r.listing] = r.set]
    /\ Set(w, Mark(r.listing, row'[r.listing] = "active"))
    /\ UNCHANGED <<hostOk, index, syncing, found, finding>>

DelistReads(w, l) ==
    /\ request[w] = NoRequest /\ row[l] # "none"
    /\ Set(w, [NoRequest EXCEPT !.op = "delist", !.listing = l,
                                !.set = IF row[l] = "delisted" THEN NoChange
                                        ELSE "delisted"])
    /\ UNCHANGED <<hostOk, row, index, syncing, found, finding>>

DelistCommits(w) ==
    LET r == request[w] IN
    /\ r.op = "delist"
    /\ row' = IF r.set = NoChange THEN row ELSE [row EXCEPT ![r.listing] = "delisted"]
    /\ Set(w, Mark(r.listing, FALSE))
    /\ UNCHANGED <<hostOk, index, syncing, found, finding>>

\* mark_available, mark_unavailable.
MarkIndex(w) ==
    LET r == request[w] IN
    /\ r.op = "mark"
    /\ index' = IF r.on THEN index \cup {r.listing} ELSE index \ {r.listing}
    /\ Set(w, NoRequest)
    /\ UNCHANGED <<hostOk, row, syncing, found, finding>>

\* Redis does not answer, or the process dies: what was committed stays.
RequestFails(w) ==
    /\ request[w] # NoRequest
    /\ Set(w, NoRequest)
    /\ UNCHANGED <<hostOk, row, index, syncing, found, finding>>

-----------------------------------------------------------------------------
(* The tasks and sweeps.                                                    *)

\* The ids that are read replace the set, in one MULTI, some time later.
SyncReads(y) ==
    /\ syncing[y] = NotRunning
    /\ syncing' = [syncing EXCEPT ![y] = {l \in Listings : row[l] = "active"}]
    /\ UNCHANGED <<hostOk, row, index, request, found, finding>>

MUT_SyncWrites(y) ==
    /\ syncing[y] # NotRunning
    /\ index' = index \cup syncing[y] /\ syncing' = [syncing EXCEPT ![y] = NotRunning]
    /\ UNCHANGED <<hostOk, row, request, found, finding>>

SyncWrites(y) ==
    /\ syncing[y] # NotRunning
    /\ index' = syncing[y] /\ syncing' = [syncing EXCEPT ![y] = NotRunning]
    /\ UNCHANGED <<hostOk, row, request, found, finding>>

\* Redis does not answer, or the worker dies; a retry reads the rows again.
SyncFails(y) ==
    /\ syncing[y] # NotRunning
    /\ syncing' = [syncing EXCEPT ![y] = NotRunning]
    /\ UNCHANGED <<hostOk, row, index, request, found, finding>>

\* check_and_mark_offline_hosts pauses the listings and leaves the set alone.
WatcherPauses ==
    /\ hostOk
    /\ row' = [l \in Listings |-> IF row[l] = "active" THEN "paused" ELSE row[l]]
    /\ UNCHANGED <<hostOk, index, request, syncing, found, finding>>

\* host_service's sweeps and the kill switch leave listings alone.
HostChanges ==
    /\ hostOk' = ~hostOk
    /\ UNCHANGED <<row, index, request, syncing, found, finding>>

\* sync_searchable_listing, which only POST /search/sync reaches.
FindReads(l) ==
    /\ finding = NoFinding /\ row[l] # "none"
    /\ finding' = [listing |-> l, status |-> row[l]]
    /\ UNCHANGED <<hostOk, row, index, request, syncing, found>>

FindWrites ==
    /\ finding # NoFinding
    /\ found' = [found EXCEPT ![finding.listing] = finding.status]
    /\ finding' = NoFinding
    /\ UNCHANGED <<hostOk, row, index, request, syncing>>

-----------------------------------------------------------------------------
(* What a search answers.                                                   *)

\* search_listings with available_only, and is_available of each item.
Browse    == {l \in Listings : row[l] = "active"}
Available == Browse \cap index
\* execute_smart_search.
SmartSearch == {l \in Listings : found[l] = "active"}

MarketNext ==
    \/ \E w \in MarketWorkers :
          \/ \E l \in Listings :
                \/ CreateReads(w, l) \/ DelistReads(w, l)
                \/ \E s \in ListingStatus \cup {NoChange} : UpdateReads(w, l, s)
          \/ CreateCommits(w) \/ UpdateCommits(w) \/ DelistCommits(w)
          \/ MarkIndex(w) \/ RequestFails(w)
    \/ \E y \in Syncs : SyncReads(y) \/ SyncWrites(y) \/ SyncFails(y)
    \/ WatcherPauses \/ HostChanges \/ FindWrites
    \/ \E l \in Listings : FindReads(l)

\* Celery beat runs the sync every five minutes and not every write of it fails; a
\* request ends.
MarketFairness ==
    /\ \A y \in Syncs : WF_marketVars(SyncReads(y)) /\ SF_marketVars(SyncWrites(y))
    /\ \A w \in MarketWorkers : WF_marketVars(MarkIndex(w) \/ RequestFails(w))

MarketSpec == MarketInit /\ [][MarketNext]_marketVars /\ MarketFairness

-----------------------------------------------------------------------------
(* Properties that hold *)

\* Every variable keeps its type.
MarketTypeOK ==
    /\ hostOk \in BOOLEAN /\ row \in [Listings -> ListingStatus \cup {"none"}]
    /\ index \subseteq Listings /\ request \in [MarketWorkers -> Request]
    /\ syncing \in [Syncs -> (SUBSET Listings) \cup {NotRunning}]
    /\ found \in [Listings -> ListingStatus \cup {"none"}]
    /\ finding \in [listing: Listings \cup {NoListing}, status: ListingStatus]

\* Redis never names a listing that was not committed.
IndexNamesRows == \A l \in index : row[l] # "none"

\* Whatever mark was lost or overtaken, and whatever sync failed or overlapped, the set
\* comes to agree with the row of a listing that changes no more.
IndexCatchesUp ==
    \A l \in Listings :
        /\ <>[](row[l] \in {"paused", "delisted", "draft"}) => <>[](l \notin index)
        /\ <>[](row[l] = "active") => <>[](l \in Available)

-----------------------------------------------------------------------------
(* Claims of the code's own text that its behaviour contradicts *)

\* SearchableListing: "Kept in sync via event-driven upsert whenever listings,
\* scores, or verifications change".
SearchCatchesUp ==
    \A l \in Listings : <>[](row[l] = "delisted") => <>[](l \notin SmartSearch)
=============================================================================
