------------------------------ MODULE Devices ------------------------------
(***************************************************************************)
(* Which row of devices a sweep takes a host for: the lookup by hardware   *)
(* address, name and address (resolve_device_identity), the row it         *)
(* updates, inserts or supersedes, and the devices it takes offline when   *)
(* nothing answered in their place (run_discovery_scan_task).  A sweep is  *)
(* one transaction, and two sweeps may overlap.                            *)
(*                                                                         *)
(* Modelled from apps/api/app/modules/discovery/service.py.                *)
(***************************************************************************)
EXTENDS Integers, FiniteSets

CONSTANTS
    Sweeps,     \* runs of the scan task that got past the pending guard
    Rows,       \* rows of devices
    Ips,        \* network addresses; a host without a name is named for its own
    Macs,       \* hardware addresses
    Hostnames,  \* names found by reverse DNS
    Ranges,     \* sets of addresses a scan is asked for
    MaxOverlaps, \* bound: pairs of sweeps that are open at the same time
    None        \* NULL

ASSUME NoneIsNothing ==
    None \notin Sweeps \union Rows \union Ips \union Macs \union Hostnames

ASSUME RangesOfAddresses == \A asked \in Ranges : asked \subseteq Ips

ASSUME OverlapsBound == MaxOverlaps \in Nat

VARIABLES
    stored,     \* the committed version of each row, None when there is none
    open,       \* the version an open transaction has flushed
    holder,     \* the sweep that has flushed a row and holds it
    phase,      \* phase[s]: "idle", "sweeping", "resolved", "missing", "done", "failed"
    range,      \* the addresses of the sweep
    left,       \* those it has not had an answer from yet
    host,       \* the host it is looking at
    found,      \* the row it took the host for
    seen,       \* that row, as its session read it
    processed,  \* the rows its hosts were taken for
    missing,    \* rows it is about to take offline
    beside      \* beside[s]: sweeps that were open together with s

vars == <<stored, open, holder, phase, range, left, host, found, seen,
          processed, missing, beside>>

\* parse_nmap_xml and perform_manual_discovery: a host answers from an address,
\* with the hardware address if it is known on this network segment, and with
\* its name or, without one, with a name made from the address.
Host == [ip : Ips, mac : Macs \union {None}, name : Hostnames \union Ips]

Answers(ip) == {h \in Host : h.ip = ip /\ h.name \in Hostnames \union {ip}}

Row == [mac : Macs \union {None}, name : Hostnames \union Ips,
        ip : Ips \union {None}, online : BOOLEAN,
        logged : Ips \union {None},   \* new_ip of the newest DeviceIPHistory entry
        by : Sweeps]                  \* the sweep that inserted the row

ASSUME NoneIsNoRecord == None \notin Host \union Row

TypeOK ==
    /\ stored \in [Rows -> Row \union {None}]
    /\ open \in [Rows -> Row \union {None}]
    /\ holder \in [Rows -> Sweeps \union {None}]
    /\ phase \in [Sweeps -> {"idle", "sweeping", "resolved", "missing", "done", "failed"}]
    /\ range \in [Sweeps -> Ranges \union {{}}]
    /\ left \in [Sweeps -> SUBSET Ips]
    /\ host \in [Sweeps -> Host \union {None}]
    /\ found \in [Sweeps -> Rows \union {None}]
    /\ seen \in [Sweeps -> Row \union {None}]
    /\ processed \in [Sweeps -> SUBSET Rows]
    /\ missing \in [Sweeps -> SUBSET Rows]
    /\ beside \in [Sweeps -> SUBSET Sweeps]

Init ==
    /\ stored = [r \in Rows |-> None]
    /\ open = [r \in Rows |-> None]
    /\ holder = [r \in Rows |-> None]
    /\ phase = [s \in Sweeps |-> "idle"]
    /\ range = [s \in Sweeps |-> {}]
    /\ left = [s \in Sweeps |-> {}]
    /\ host = [s \in Sweeps |-> None]
    /\ found = [s \in Sweeps |-> None]
    /\ seen = [s \in Sweeps |-> None]
    /\ processed = [s \in Sweeps |-> {}]
    /\ missing = [s \in Sweeps |-> {}]
    /\ beside = [s \in Sweeps |-> {}]

----------------------------------------------------------------------------
(* What a transaction sees and what it holds *)

\* READ COMMITTED: a session sees its own flushed rows and the committed others.
Visible(s, r) == IF holder[r] = s THEN open[r] ELSE stored[r]

Present(s) == {r \in Rows : Visible(s, r) # None}

\* An UPDATE waits for the transaction that has flushed the row.
RowFree(s, r) == holder[r] \in {None, s}

\* The version an UPDATE of s changes, once it has the row.
Current(s, r) == IF holder[r] = s THEN open[r] ELSE stored[r]

Flush(s, written) ==
    /\ open' = [r \in Rows |-> IF r \in DOMAIN written THEN written[r] ELSE open[r]]
    /\ holder' = [r \in Rows |-> IF r \in DOMAIN written THEN s ELSE holder[r]]

Held(s) == {r \in Rows : holder[r] = s}

Open == {s \in Sweeps : phase[s] \in {"sweeping", "resolved", "missing"}}

\* Pairs of sweeps that have been open at the same time.
Overlaps == UNION {{{s, t} : t \in beside[s]} : s \in Sweeps}

----------------------------------------------------------------------------
(* resolve_device_identity *)

\* Variant: the name is asked before the hardware address.
Candidates_NameFirst(s, h) ==
    LET Matching(field, value) == {r \in Present(s) : Visible(s, r)[field] = value}
    IN <<Matching("name", h.name),
         IF h.mac = None THEN {} ELSE Matching("mac", h.mac),
         Matching("ip", h.ip)>>

\* The rows each lookup returns, in the order they are tried.  A scan knows no
\* system UUID and no serial number.
Candidates(s, h) ==
    LET Matching(field, value) == {r \in Present(s) : Visible(s, r)[field] = value}
    IN <<IF h.mac = None THEN {} ELSE Matching("mac", h.mac),
         Matching("name", h.name),
         Matching("ip", h.ip)>>

\* The first lookup that returns anything.
Match(s, h) ==
    LET c == Candidates(s, h)
    IN CASE c[1] # {} -> c[1]
         [] c[1] = {} /\ c[2] # {} -> c[2]
         [] OTHER -> c[3]

\* The address is known, the hardware address is another.
Mismatch(h, row) ==
    /\ row.ip # None
    /\ h.mac # None /\ row.mac # None /\ row.mac # h.mac

----------------------------------------------------------------------------
(* run_discovery_scan_task *)

Begin(s) ==
    /\ phase[s] = "idle"
    /\ Cardinality(Overlaps) + Cardinality(Open) <= MaxOverlaps
    /\ phase' = [phase EXCEPT ![s] = "sweeping"]
    /\ \E asked \in Ranges :
        /\ range' = [range EXCEPT ![s] = asked]
        /\ left' = [left EXCEPT ![s] = asked]
    /\ beside' = [t \in Sweeps |-> IF t \in Open THEN beside[t] \union {s}
                                   ELSE IF t = s THEN Open ELSE beside[t]]
    /\ UNCHANGED <<stored, open, holder, host, found, seen, processed, missing>>

\* A host is resolved; scalar_one_or_none raises when a lookup returns two rows,
\* and then the sweep can only fail.
Resolve(s) ==
    /\ phase[s] = "sweeping"
    /\ \E ip \in left[s] : \E h \in Answers(ip) :
        /\ Cardinality(Match(s, h)) <= 1
        /\ left' = [left EXCEPT ![s] = @ \ {ip}]
        /\ host' = [host EXCEPT ![s] = h]
        /\ \/ /\ Match(s, h) = {}
              /\ UNCHANGED <<found, seen>>
           \/ \E r \in Match(s, h) :
                /\ found' = [found EXCEPT ![s] = r]
                /\ seen' = [seen EXCEPT ![s] = Visible(s, r)]
    /\ phase' = [phase EXCEPT ![s] = "resolved"]
    /\ UNCHANGED <<stored, open, holder, range, processed, missing, beside>>

\* The host is done with: the row it was taken for is processed.
Processed(s, r) ==
    /\ processed' = [processed EXCEPT ![s] = @ \union {r}]
    /\ phase' = [phase EXCEPT ![s] = "sweeping"]
    /\ host' = [host EXCEPT ![s] = None]
    /\ found' = [found EXCEPT ![s] = None]
    /\ seen' = [seen EXCEPT ![s] = None]
    /\ UNCHANGED <<stored, range, left, missing, beside>>

\* Variant: every column of the object is written, as it was read.
Updated_WholeRow(h, read, row) ==
    [read EXCEPT !.name = h.name, !.online = TRUE, !.ip = h.ip,
                 !.logged = IF read.ip # h.ip THEN h.ip ELSE row.logged]

\* The UPDATE of a row that was found: the session writes the columns that
\* differ from what it read, and an address that differs is logged.
Updated(h, read, row) ==
    [row EXCEPT !.name = IF read.name # h.name THEN h.name ELSE @,
                !.online = IF read.online THEN @ ELSE TRUE,
                !.ip = IF read.ip # h.ip THEN h.ip ELSE @,
                !.logged = IF read.ip # h.ip THEN h.ip ELSE @]

\* A row for a host, with its first entry in the address history.
Inserted(s, h) ==
    [mac |-> h.mac, name |-> h.name, ip |-> h.ip, online |-> TRUE,
     logged |-> h.ip, by |-> s]

Update(s) ==
    /\ phase[s] = "resolved" /\ found[s] # None
    /\ ~Mismatch(host[s], seen[s])
    /\ RowFree(s, found[s])
    /\ Flush(s, [r \in {found[s]} |-> Updated(host[s], seen[s], Current(s, r))])
    /\ Processed(s, found[s])

\* An unused row: neither stored nor flushed by anyone.
Unused(r) == stored[r] = None /\ holder[r] = None

Insert(s) ==
    /\ phase[s] = "resolved" /\ found[s] = None
    /\ \E new \in Rows :
        /\ Unused(new)
        /\ Flush(s, [r \in {new} |-> Inserted(s, host[s])])
        /\ Processed(s, new)

\* The device that had the identity is kept for its history, without an address.
Retired(read, row) ==
    [row EXCEPT !.ip = None, !.logged = None,
                !.online = IF read.online THEN FALSE ELSE @]

Supersede(s) ==
    /\ phase[s] = "resolved" /\ found[s] # None
    /\ Mismatch(host[s], seen[s])
    /\ RowFree(s, found[s])
    /\ \E new \in Rows :
        /\ Unused(new)
        /\ Flush(s, [r \in {found[s], new} |->
                        IF r = new THEN Inserted(s, host[s])
                                   ELSE Retired(seen[s], Current(s, r))])
        /\ Processed(s, new)

\* ip_in_range
InRange(ip, asked) == ip \in asked

\* Variant: the devices that are compared are those of the addresses that did
\* not answer.
Missing_Silent(s) ==
    {r \in Present(s) \ processed[s] :
        Visible(s, r).online /\ Visible(s, r).ip \in left[s]}

\* Devices of the range no host was taken for.  One that is offline already is
\* not written again.
Missing(s) ==
    {r \in Present(s) \ processed[s] :
        Visible(s, r).online /\ InRange(Visible(s, r).ip, range[s])}

\* The hosts are through; the devices of the organization are read.
SelectMissing(s) ==
    /\ phase[s] = "sweeping"
    /\ missing' = [missing EXCEPT ![s] = Missing(s)]
    /\ phase' = [phase EXCEPT ![s] = "missing"]
    /\ left' = [left EXCEPT ![s] = {}]
    /\ UNCHANGED <<stored, open, holder, range, host, found, seen, processed, beside>>

TakeOffline(s) ==
    /\ phase[s] = "missing"
    /\ \E r \in missing[s] :
        /\ RowFree(s, r)
        /\ Flush(s, [q \in {r} |-> [Current(s, r) EXCEPT !.online = FALSE]])
        /\ missing' = [missing EXCEPT ![s] = @ \ {r}]
    /\ UNCHANGED <<stored, phase, range, left, host, found, seen, processed, beside>>

\* The end of a transaction: what it held is let go.
LetGo(s) ==
    /\ open' = [r \in Rows |-> IF r \in Held(s) THEN None ELSE open[r]]
    /\ holder' = [r \in Rows |-> IF r \in Held(s) THEN None ELSE holder[r]]
    /\ range' = [range EXCEPT ![s] = {}]
    /\ left' = [left EXCEPT ![s] = {}]
    /\ host' = [host EXCEPT ![s] = None]
    /\ found' = [found EXCEPT ![s] = None]
    /\ seen' = [seen EXCEPT ![s] = None]
    /\ processed' = [processed EXCEPT ![s] = {}]
    /\ missing' = [missing EXCEPT ![s] = {}]
    /\ UNCHANGED beside

Commit(s) ==
    /\ phase[s] = "missing" /\ missing[s] = {}
    /\ stored' = [r \in Rows |-> IF r \in Held(s) THEN open[r] ELSE stored[r]]
    /\ phase' = [phase EXCEPT ![s] = "done"]
    /\ LetGo(s)

\* An ambiguous lookup, a deadlock the database resolves, any other error, or
\* the death of the worker: the transaction is rolled back.
Fail(s) ==
    /\ s \in Open
    /\ phase' = [phase EXCEPT ![s] = "failed"]
    /\ UNCHANGED stored
    /\ LetGo(s)

Next ==
    \E s \in Sweeps :
        \/ Begin(s) \/ Resolve(s)
        \/ Update(s) \/ Insert(s) \/ Supersede(s)
        \/ SelectMissing(s) \/ TakeOffline(s)
        \/ Commit(s) \/ Fail(s)

Spec == Init /\ [][Next]_vars

----------------------------------------------------------------------------
(* Properties *)

Stored == {r \in Rows : stored[r] # None}

\* A hardware address names one device: the lookup that finds it comes first, so
\* nobody inserts it twice but two sweeps that overlapped
\* (service.py:744-760, 989-1003).
MacNamesOneDevice ==
    \A q, r \in Stored :
        (q # r /\ stored[q].mac # None /\ stored[q].mac = stored[r].mac)
            => stored[q].by \in beside[stored[r].by]

\* After sweeps that did not overlap, two devices are never online at one
\* address, whatever hosts moved, swapped addresses or were replaced
\* (service.py:916-923, 960-966, 1052-1064).
OnlineAddressesDiffer ==
    (\A s \in Sweeps : beside[s] = {})
        => \A q, r \in Stored :
            (q # r /\ stored[q].online /\ stored[r].online)
                => stored[q].ip # stored[r].ip

\* The newest entry of a device's address history is its address, also when
\* sweeps overlap and each writes from what it read
\* (service.py:926-929, 961-966, 1010-1013).
IpHistoryIsCurrent ==
    \A r \in Stored : stored[r].logged = stored[r].ip
=============================================================================
