------------------------------- MODULE Transfers -------------------------------
(***************************************************************************)
(* Running uploads and downloads under the quota of their user             *)
(* (internal/common/transfer.go, connection.go, transferschecker.go and    *)
(* checkTransfers of common.go).                                           *)
(*                                                                         *)
(* A transfer is opened against the quota that is left, stops when it      *)
(* passes the limit it was opened with, and adds to the used quota when it *)
(* closes.  What several transfers of a user use together is only seen by  *)
(* checkTransfers, which runs every minute: it copies the sizes into the   *)
(* list of the in-memory transfers checker, adds them up per user, fetches *)
(* the users and signals the transfers of a user that is over quota.  The  *)
(* list is filled and emptied by goroutines nobody waits for.              *)
(*                                                                         *)
(* Quota updates are stored at once (no delayed_quota_update), files are   *)
(* in the home directory (no virtual folders), and a read or a write moves *)
(* one unit.                                                               *)
(***************************************************************************)
EXTENDS GoMaps, FiniteSets, FiniteSetsExt

CONSTANTS
    Transfers,      \* the transfers, each opened at most once
    Connections,    \* the connections they run on
    Users,
    connOf,         \* [Transfers -> Connections]
    idOf,           \* [Transfers -> Nat]: unique on the connection only
    userOf,         \* [Connections -> Users]
    protocolOf,     \* [Connections -> Protocols]
    Downloads,      \* the transfers that may be downloads, the others are uploads
    fileSizes,      \* [Transfers -> SUBSET Nat]: sizes of the file an upload
                    \* finds at its path, 0 when there is none
    hasTruncate,    \* [Transfers -> BOOLEAN]: HasTruncateSupport of its backend,
                    \* where a file that is overwritten is gone at once
    Limits,         \* the quotas a user may have
    Stored,         \* used disk quota of a user at the start
    MaxBytes        \* bound: the units one transfer moves

VARIABLES
    limits,         \* the quotas of each user, fixed
    connections,    \* the registered connections
    transfers,      \* the state of each transfer
    usedSize,       \* UsedQuotaSize of each user
    usedData,       \* UsedUploadDataTransfer and UsedDownloadDataTransfer
    list,           \* transfersCheckerMem.transfers
    goroutines,     \* calls of the checker that were spawned and did not run
    check           \* progress of checkTransfers

vars == <<limits, connections, transfers, usedSize, usedData, list, goroutines, check>>

Protocols == {"SFTP", "SCP", "FTP", "DAV", "HTTP"}

\* the protocols whose reads and writes look at AbortTransfer
honoursAbort == {"DAV", "HTTP"}

\* the protocols that add the size of the overwritten file to what
\* GetMaxWriteSize returns
addsFileSize == {"HTTP", "SCP"}

ASSUME ConstantsAssumption ==
    /\ IsFiniteSet(Transfers)
    /\ connOf \in [Transfers -> Connections]
    /\ idOf \in [Transfers -> Nat]
    /\ \A t, u \in Transfers : connOf[t] = connOf[u] /\ idOf[t] = idOf[u] => t = u
    /\ userOf \in [Connections -> Users]
    /\ protocolOf \in [Connections -> Protocols]
    /\ Downloads \subseteq Transfers
    /\ fileSizes \in [Transfers -> SUBSET Nat]
    /\ hasTruncate \in [Transfers -> BOOLEAN]
    /\ Limits \subseteq [size : Nat, total : Nat, ul : Nat, dl : Nat]
    /\ Stored \in Nat
    /\ MaxBytes \in Nat

user(t) == userOf[connOf[t]]
protocol(t) == protocolOf[connOf[t]]

\* "allowed": the quota was checked and the file is being opened; "stopped": a
\* read or a write returned an error; "counted": Close updated the quotas
Stages == {"new", "allowed", "open", "stopped", "counted", "closed"}

NewTransfer ==
    [stage |-> "new", type |-> "upload", bytes |-> 0, fileSize |-> 0, max |-> 0,
     allowed |-> [total |-> 0, ul |-> 0, dl |-> 0], failed |-> FALSE, aborted |-> FALSE]

Idle == [pc |-> "idle"]

Init ==
    /\ limits \in [Users -> Limits]
    /\ connections = Connections
    /\ transfers = [t \in Transfers |-> NewTransfer]
    /\ usedSize = [u \in Users |-> Stored]
    /\ usedData = [u \in Users |-> [ul |-> 0, dl |-> 0]]
    /\ list = <<>>
    /\ goroutines = {}
    /\ check = Idle

-------------------------------------------------------------------------------
(* Opening *)

\* the transfers in BaseConnection.activeTransfers
isActive(t) == transfers[t].stage \in {"open", "stopped", "counted"}

\* Remove of the registry, after the transfers of the connection are closed
Disconnect(c) ==
    /\ c \in connections
    /\ \A t \in Transfers : connOf[t] = c => transfers[t].stage \in {"new", "closed"}
    /\ connections' = connections \ {c}
    /\ UNCHANGED <<limits, transfers, usedSize, usedData, list, goroutines, check>>

remaining(limit, used) == IF limit > 0 THEN limit - used ELSE 0

\* checkUserQuota
allowedData(u) ==
    [total |-> remaining(limits[u].total, usedData[u].ul + usedData[u].dl),
     ul |-> remaining(limits[u].ul, usedData[u].ul),
     dl |-> remaining(limits[u].dl, usedData[u].dl)]

\* HasUploadSpace and HasDownloadSpace
hasDataSpace(u, limit, allowed, left) ==
    \/ limits[u].total = 0 /\ limit = 0
    \/ limits[u].total > 0 /\ allowed.total > 0
    \/ limits[u].total = 0 /\ left > 0

HasSpace(u) == limits[u].size = 0 \/ usedSize[u] < limits[u].size

addOverwritten(max, fileSize) == IF max > 0 THEN max + fileSize ELSE max

\* mutant: the whole quota instead of what is left of it
GetMaxWriteSizeIgnoringUsed(u, fileSize) == addOverwritten(limits[u].size, fileSize)

GetMaxWriteSize(u, fileSize) ==
    addOverwritten(remaining(limits[u].size, usedSize[u]), fileSize)

maxWriteSize(t, fileSize) ==
    LET max == GetMaxWriteSize(user(t), fileSize)
    IN  IF protocol(t) \in addsFileSize THEN addOverwritten(max, fileSize) ELSE max

\* the quota checks of an upload
checkUpload(t, fileSize) ==
    LET u == user(t)  allowed == allowedData(u) IN
    /\ transfers[t].stage = "new"
    /\ connOf[t] \in connections
    /\ HasSpace(u)
    /\ hasDataSpace(u, limits[u].ul, allowed, allowed.ul)
    /\ transfers' = [transfers EXCEPT ![t].stage = "allowed", ![t].fileSize = fileSize,
                                      ![t].max = maxWriteSize(t, fileSize),
                                      ![t].allowed = allowed]
    /\ UNCHANGED <<limits, connections, usedSize, usedData, list, goroutines, check>>

\* the quota checks of a download
checkDownload(t) ==
    LET u == user(t)  allowed == allowedData(u) IN
    /\ t \in Downloads
    /\ transfers[t].stage = "new"
    /\ connOf[t] \in connections
    /\ hasDataSpace(u, limits[u].dl, allowed, allowed.dl)
    /\ transfers' = [transfers EXCEPT ![t].stage = "allowed", ![t].type = "download",
                                      ![t].allowed = allowed]
    /\ UNCHANGED <<limits, connections, usedSize, usedData, list, goroutines, check>>

HasSizeLimits(a) == a.dl > 0 \/ a.ul > 0 \/ a.total > 0

HasSizeLimit(t) == transfers[t].max > 0 \/ HasSizeLimits(transfers[t].allowed)

spawn(kind, t) ==
    goroutines' = IF HasSizeLimit(t) THEN goroutines \cup {<<kind, t>>} ELSE goroutines

\* The file is created (an overwritten one leaves the quota now if the backend
\* truncates it) and NewBaseTransfer adds the transfer to the connection
open(t) ==
    /\ transfers[t].stage = "allowed"
    /\ transfers' = [transfers EXCEPT ![t].stage = "open"]
    /\ usedSize' = IF hasTruncate[t] THEN [usedSize EXCEPT ![user(t)] = @ - transfers[t].fileSize]
                                     ELSE usedSize
    /\ spawn("add", t)
    /\ UNCHANGED <<limits, connections, usedData, list, check>>

-------------------------------------------------------------------------------
(* Reading, writing and closing *)

\* CheckRead and CheckWrite, after the unit was moved
isOver(x) ==
    \/ x.type = "upload" /\ x.max > 0 /\ x.bytes > x.max
    \/ x.allowed.total > 0 /\ x.bytes > x.allowed.total
    \/ x.allowed.total <= 0 /\ x.type = "upload" /\ x.allowed.ul > 0 /\ x.bytes > x.allowed.ul
    \/ x.allowed.total <= 0 /\ x.type = "download" /\ x.allowed.dl > 0 /\ x.bytes > x.allowed.dl

\* mutant: only Write looks at AbortTransfer
mustAbortUploads(t) ==
    transfers[t].aborted /\ protocol(t) \in honoursAbort /\ transfers[t].type = "upload"

mustAbort(t) == transfers[t].aborted /\ protocol(t) \in honoursAbort

\* Read or Write that finds AbortTransfer set: HTTP records the quota error,
\* WebDAV only returns an error
abort(t) ==
    /\ transfers[t].stage = "open"
    /\ mustAbort(t)
    /\ transfers' = [transfers EXCEPT ![t].stage = "stopped", ![t].failed = protocol(t) = "HTTP"]
    /\ UNCHANGED <<limits, connections, usedSize, usedData, list, goroutines, check>>

\* Read or Write of one unit
move(t) ==
    LET moved == [transfers[t] EXCEPT !.bytes = @ + 1] IN
    /\ transfers[t].stage = "open"
    /\ ~ mustAbort(t)
    /\ transfers[t].bytes < MaxBytes
    /\ transfers' = [transfers EXCEPT ![t] =
                       IF isOver(moved) THEN [moved EXCEPT !.stage = "stopped", !.failed = TRUE]
                                        ELSE moved]
    /\ UNCHANGED <<limits, connections, usedSize, usedData, list, goroutines, check>>

\* InitialSize and TruncatedSize: the overwritten bytes still in the quota
truncatedSize(t) == IF hasTruncate[t] THEN 0 ELSE transfers[t].fileSize

\* Close up to the deferred RemoveTransfer.  A failed upload leaves no file: it
\* is removed, or was never stored.
Close(t) ==
    LET x == transfers[t]  u == user(t)
        isStored == x.type = "upload" /\ ~ x.failed
        isRemoved == x.type = "upload" /\ x.failed /\ hasTruncate[t]
    IN
    /\ x.stage \in {"open", "stopped"}
    /\ usedData' = IF ~ HasSizeLimits(x.allowed) THEN usedData
                   ELSE IF x.type = "upload" THEN [usedData EXCEPT ![u].ul = @ + x.bytes]
                   ELSE [usedData EXCEPT ![u].dl = @ + x.bytes]
    /\ usedSize' = IF isStored THEN [usedSize EXCEPT ![u] = @ + x.bytes - truncatedSize(t)]
                               ELSE usedSize
    /\ transfers' = [transfers EXCEPT ![t].stage = "counted",
                                      ![t].bytes = IF isRemoved THEN 0 ELSE @]
    /\ UNCHANGED <<limits, connections, list, goroutines, check>>

\* BaseConnection.RemoveTransfer
RemoveTransfer(t) ==
    /\ transfers[t].stage = "counted"
    /\ transfers' = [transfers EXCEPT ![t].stage = "closed"]
    /\ spawn("remove", t)
    /\ UNCHANGED <<limits, connections, usedSize, usedData, list, check>>

-------------------------------------------------------------------------------
(* transfersCheckerMem: an entry has the transfer and the sizes last seen *)

\* mutant: the truncated bytes are taken off already here
entryWithoutTruncated(t, bytes) ==
    [transfer |-> t,
     ul |-> IF transfers[t].type = "upload" THEN bytes - truncatedSize(t) ELSE 0,
     dl |-> IF transfers[t].type = "download" THEN bytes ELSE 0]

entry(t, bytes) ==
    [transfer |-> t,
     ul |-> IF transfers[t].type = "upload" THEN bytes ELSE 0,
     dl |-> IF transfers[t].type = "download" THEN bytes ELSE 0]

\* mutant: the id alone, which other connections use too
entriesWithID(t) == {i \in 1 .. Len(list) : idOf[list[i].transfer] = idOf[t]}

\* the indexes of the entries with the ID and the ConnID of t
entriesOf(t) ==
    {i \in 1 .. Len(list) : /\ idOf[list[i].transfer] = idOf[t]
                            /\ connOf[list[i].transfer] = connOf[t]}

checkerAdd(t) ==
    /\ <<"add", t>> \in goroutines
    /\ goroutines' = goroutines \ {<<"add", t>>}
    /\ list' = Append(list, entry(t, 0))
    /\ UNCHANGED <<limits, connections, transfers, usedSize, usedData, check>>

checkerRemove(t) ==
    /\ <<"remove", t>> \in goroutines
    /\ goroutines' = goroutines \ {<<"remove", t>>}
    /\ list' = IF entriesOf(t) = {} THEN list ELSE SwapRemove(list, Min(entriesOf(t)))
    /\ UNCHANGED <<limits, connections, transfers, usedSize, usedData, check>>

-------------------------------------------------------------------------------
(* checkTransfers *)

\* The sizes are read under the lock of the registry and handed to goroutines;
\* with fewer than two connections there is no check
startCheck ==
    /\ check.pc = "idle"
    /\ Cardinality(connections) >= 2
    /\ check' = [pc |-> "updating",
                 updates |-> {entry(t, transfers[t].bytes) :
                                t \in {x \in Transfers : isActive(x) /\ HasSizeLimit(x)}}]
    /\ UNCHANGED <<limits, connections, transfers, usedSize, usedData, list, goroutines>>

\* UpdateTransferCurrentSizes
updateSizes(e) ==
    /\ check.pc = "updating"
    /\ e \in check.updates
    /\ check' = [check EXCEPT !.updates = @ \ {e}]
    /\ list' = IF entriesOf(e.transfer) = {} THEN list
               ELSE ReplaceAt(list, Min(entriesOf(e.transfer)), e)
    /\ UNCHANGED <<limits, connections, transfers, usedSize, usedData, goroutines>>

\* aggregateUploadTransfers and aggregateTransfersByUser: a user with one
\* transfer is not checked
entriesOfUser(entries, u) == {i \in 1 .. Len(entries) : user(entries[i].transfer) = u}

\* mutant: one transfer too many is needed for a check
usersToFetchOffByOne(entries) == {u \in Users : Cardinality(entriesOfUser(entries, u)) > 2}

usersToFetch(entries) == {u \in Users : Cardinality(entriesOfUser(entries, u)) > 1}

\* GetOverquotaTransfers, after wg.Wait, up to the end of the read lock
aggregate ==
    /\ check.pc = "updating"
    /\ check.updates = {}
    /\ check' = IF usersToFetch(list) = {} THEN Idle ELSE [pc |-> "aggregated", entries |-> list]
    /\ UNCHANGED <<limits, connections, transfers, usedSize, usedData, list, goroutines>>

sumUL(entries, S) == MapThenSumSet(LAMBDA i : entries[i].ul, S)
sumDL(entries, S) == MapThenSumSet(LAMBDA i : entries[i].dl, S)

uploadsOfUser(entries, u) ==
    {i \in entriesOfUser(entries, u) : transfers[entries[i].transfer].type = "upload"}

\* what the uploads add to the quota; the bytes of a file that is replaced are
\* taken off, on the assumption that the upload succeeds
usedDiskQuota(entries, u) ==
    MapThenSumSet(LAMBDA i : entries[i].ul - truncatedSize(entries[i].transfer), uploadsOfUser(entries, u))

\* mutant: a user who uses exactly the quota is over it
overDiskAtLimit(entries, u) ==
    {i \in uploadsOfUser(entries, u) :
       /\ limits[u].size > 0
       /\ usedDiskQuota(entries, u) >= limits[u].size - usedSize[u]
       /\ entries[i].ul > truncatedSize(entries[i].transfer)}

overDisk(entries, u) ==
    {i \in uploadsOfUser(entries, u) :
       /\ limits[u].size > 0
       /\ usedDiskQuota(entries, u) > limits[u].size - usedSize[u]
       /\ entries[i].ul > truncatedSize(entries[i].transfer)}

\* isDataTransferExceeded
overData(entries, u) ==
    LET S == entriesOfUser(entries, u)
        ul == sumUL(entries, S)
        dl == sumDL(entries, S)
        isOverTotal == limits[u].total > 0 /\ ul + dl > limits[u].total - (usedData[u].ul + usedData[u].dl)
        isOverDL == limits[u].dl > 0 /\ dl > limits[u].dl - usedData[u].dl
        isOverUL == limits[u].ul > 0 /\ ul > limits[u].ul - usedData[u].ul
    IN  {i \in S : CASE isOverTotal -> entries[i].dl > 0 \/ entries[i].ul > 0
                     [] ~ isOverTotal /\ isOverDL -> entries[i].dl > 0
                     [] ~ isOverTotal /\ ~ isOverDL /\ isOverUL -> entries[i].ul > 0
                     [] OTHER -> FALSE}

\* getOverquotaTransfers, with what the provider says of the users now
getOverquotaTransfers ==
    LET over == UNION {overDisk(check.entries, u) \cup overData(check.entries, u) :
                         u \in usersToFetch(check.entries)}
    IN
    /\ check.pc = "aggregated"
    /\ check' = IF over = {} THEN Idle
                ELSE [pc |-> "signalling", over |-> {check.entries[i].transfer : i \in over}]
    /\ UNCHANGED <<limits, connections, transfers, usedSize, usedData, list, goroutines>>

\* the provider returns an error
fetchFails ==
    /\ check.pc = "aggregated"
    /\ check' = Idle
    /\ UNCHANGED <<limits, connections, transfers, usedSize, usedData, list, goroutines>>

\* SignalTransferClose of every transfer found that is still there
signalClose ==
    /\ check.pc = "signalling"
    /\ transfers' = [t \in Transfers |->
                       IF t \in check.over /\ isActive(t) /\ connOf[t] \in connections
                       THEN [transfers[t] EXCEPT !.aborted = TRUE]
                       ELSE transfers[t]]
    /\ check' = Idle
    /\ UNCHANGED <<limits, connections, usedSize, usedData, list, goroutines>>

-------------------------------------------------------------------------------
checkStep ==
    \/ startCheck
    \/ check.pc = "updating" /\ \E e \in check.updates : updateSizes(e)
    \/ aggregate
    \/ signalClose

goroutineStep == \E t \in Transfers : checkerAdd(t) \/ checkerRemove(t)

Next ==
    \/ \E c \in Connections : Disconnect(c)
    \/ \E t \in Transfers :
         \/ \E fileSize \in fileSizes[t] : checkUpload(t, fileSize)
         \/ checkDownload(t)
         \/ open(t)
         \/ abort(t)
         \/ move(t)
         \/ Close(t)
         \/ RemoveTransfer(t)
    \/ goroutineStep
    \/ checkStep
    \/ getOverquotaTransfers
    \/ fetchFails

Spec == Init /\ [][Next]_vars

\* The scheduler calls checkTransfers every minute and never stops, the spawned
\* goroutines (finitely many) run, and the provider does not fail for ever.
FairSpec ==
    /\ Spec
    /\ WF_vars(checkStep)
    /\ SF_vars(getOverquotaTransfers)
    /\ WF_vars(goroutineStep)

-------------------------------------------------------------------------------
(* Properties *)

TransferStates ==
    [stage : Stages, type : {"upload", "download"}, bytes : 0 .. MaxBytes, fileSize : Nat, max : Int,
     allowed : [total : Int, ul : Int, dl : Int], failed : BOOLEAN, aborted : BOOLEAN]

Entries == [transfer : Transfers, ul : Nat, dl : Nat]

CheckStates ==
    [pc : {"idle"}] \cup [pc : {"updating"}, updates : SUBSET Entries]
      \cup [pc : {"aggregated"}, entries : Seq(Entries)]
      \cup [pc : {"signalling"}, over : SUBSET Transfers]

\* The types of the state: sizes in the checker's list are never negative.
TypeOK ==
    /\ limits \in [Users -> Limits]
    /\ connections \subseteq Connections
    /\ transfers \in [Transfers -> TransferStates]
    /\ usedSize \in [Users -> Int]
    /\ usedData \in [Users -> [ul : Nat, dl : Nat]]
    /\ list \in Seq(Entries)
    /\ goroutines \subseteq {"add", "remove"} \X Transfers
    /\ check \in CheckStates

\* The checker watches a limited transfer from the moment its AddTransfer
\* goroutine ran until it is closed, in one entry: no removal takes the entry of
\* another transfer, though ids repeat on other connections and the last entry
\* moves into the hole.
Watched ==
    \A t \in Transfers :
      isActive(t) /\ HasSizeLimit(t) /\ <<"add", t>> \notin goroutines
        => Cardinality({i \in 1 .. Len(list) : list[i].transfer = t}) = 1

\* A user who runs one transfer at a time stays within the disk quota: while no
\* second transfer was opened, what is stored is at most the quota.
AloneWithinQuota ==
    \A t \in Transfers :
      (\A x \in Transfers \ {t} : transfers[x].stage = "new")
        => \A u \in Users : limits[u].size > 0 => usedSize[u] <= limits[u].size

\* "SignalTransferClose makes the transfer fail on the next read/write": a
\* transfer that was signalled moves nothing more.
AbortStops ==
    [][\A t \in Transfers :
         transfers[t].aborted => transfers'[t].bytes <= transfers[t].bytes]_vars

isRunning(t) == transfers[t].stage \in {"open", "stopped"}

\* what the running transfers of a user in T and the used quota amount to
runningBytes(u, T) == MapThenSumSet(LAMBDA t : transfers[t].bytes,
                                    {t \in T : user(t) = u /\ isRunning(t)})

ofType(type) == {t \in Transfers : transfers[t].type = type}

isOverQuota(u) ==
    LET ul == usedData[u].ul + runningBytes(u, ofType("upload"))
        dl == usedData[u].dl + runningBytes(u, ofType("download"))
        truncated == MapThenSumSet(truncatedSize, {t \in ofType("upload") : user(t) = u /\ isRunning(t)})
    IN  \/ /\ limits[u].size > 0
           /\ usedSize[u] + runningBytes(u, ofType("upload")) - truncated > limits[u].size
        \/ limits[u].total > 0 /\ ul + dl > limits[u].total
        \/ limits[u].ul > 0 /\ ul > limits[u].ul
        \/ limits[u].dl > 0 /\ dl > limits[u].dl

\* the transfers of the aggregation under way
aggregated(u) == {check.entries[i].transfer : i \in entriesOfUser(check.entries, u)}

finds(t) == check.pc = "aggregated" /\ check'.pc = "signalling" /\ t \in check'.over

\* checkTransfers finds a transfer only when its user is over quota, as long as
\* what it aggregated are the transfers that run: sizes that are out of date
\* and the quota fetched later do not add up to more than there is.
OverquotaJustified ==
    [][\A t \in Transfers :
         finds(t) /\ aggregated(user(t)) = {x \in Transfers : user(x) = user(t) /\ isRunning(x)}
           => isOverQuota(user(t))]_vars

\* A transfer that runs beside another one of its user while a quota is exceeded
\* is signalled by checkTransfers, unless one of them stops or the quota is no
\* longer exceeded: races with the goroutines and failing fetches only delay it.
OverquotaSignalled ==
    \A t \in Transfers :
      LET u == user(t)
          isExceeding ==
            /\ transfers[t].stage = "open" /\ HasSizeLimit(t)
            /\ \E x \in Transfers \ {t} : user(x) = u /\ transfers[x].stage = "open" /\ HasSizeLimit(x)
            /\ transfers[t].bytes > truncatedSize(t)
            /\ isOverQuota(u)
      IN  isExceeding ~> (transfers[t].aborted \/ ~ isExceeding)
===============================================================================
