--------------------------- MODULE DevicesProofs ---------------------------
(***************************************************************************)
(* Proofs about Devices, for any sweeps, rows, addresses and names: two    *)
(* rows with one hardware address come from sweeps that overlapped, the    *)
(* newest address in a device's history is its address, and without        *)
(* overlaps no two devices are online at one address.                      *)
(***************************************************************************)
EXTENDS Devices, DeviceRecord, Sequences, FiniteSetTheorems, TLAPS

----------------------------------------------------------------------------
(* The inductive invariant *)

\* A flushed row is held by an open sweep.
Locks ==
    \A r \in Rows :
        /\ holder[r] = None <=> open[r] = None
        /\ holder[r] # None => holder[r] \in Open

\* What a sweep has found, processed or is to take offline are rows it sees.
Followed ==
    \A s \in Sweeps :
        /\ phase[s] = "resolved" => host[s] # None
        /\ found[s] # None => found[s] \in Present(s) /\ seen[s] # None
        /\ missing[s] \subseteq Present(s)
        /\ processed[s] \subseteq Present(s)
        /\ s \notin Open => found[s] = None /\ missing[s] = {} /\ processed[s] = {}

\* Sweeps that are open are beside each other, and those that were remain so.
Neighbours ==
    \A s, t \in Sweeps :
        /\ t \in beside[s] => s \in beside[t]
        /\ s \in Open /\ t \in Open /\ s # t => t \in beside[s]
        /\ phase[s] = "idle" => beside[s] = {}
        /\ s \notin beside[s]

\* A committed row was inserted by a sweep that is done; a flushed one by the
\* sweep that holds it, or it is a newer version of the committed one.
Authors ==
    \A r \in Rows :
        /\ stored[r] # None => phase[stored[r].by] = "done"
        /\ holder[r] # None =>
            IF stored[r] = None THEN open[r].by = holder[r]
            ELSE open[r].by = stored[r].by /\ open[r].mac = stored[r].mac

\* Whatever s sees with this hardware address, but for the row itself, was
\* inserted by a sweep beside it.
OnlyBeside(s, mac, self) ==
    \A r \in Rows \ self :
        (Visible(s, r) # None /\ Visible(s, r).mac = mac)
            => Visible(s, r).by \in beside[s]

\* A host that is about to be inserted has a hardware address no row had when it
\* was looked up.
Fresh ==
    \A s \in Sweeps :
        (/\ phase[s] = "resolved" /\ host[s].mac # None
         /\ found[s] = None \/ Mismatch(host[s], seen[s]))
            => OnlyBeside(s, host[s].mac, {})

\* The same holds of a row that has been inserted and not committed.
FreshRows ==
    \A q \in Rows :
        (holder[q] # None /\ stored[q] = None /\ open[q].mac # None)
            => OnlyBeside(holder[q], open[q].mac, {q})

\* In every version of a row the newest history entry is the address.
HistoryKept ==
    \A r \in Rows :
        /\ stored[r] # None => stored[r].logged = stored[r].ip
        /\ open[r] # None => open[r].logged = open[r].ip

Sound == TypeOK /\ Locks /\ Followed

Named == Neighbours /\ Authors /\ Fresh /\ FreshRows /\ MacNamesOneDevice

\* The addresses s has had an answer from and dealt with.
Answered(s) ==
    (range[s] \ left[s]) \ (IF phase[s] = "resolved" THEN {host[s].ip} ELSE {})

Online(s, r) == Visible(s, r) # None /\ Visible(s, r).online

\* What a sweep that is alone has made of the rows it sees.
Separates(s) ==
    /\ \A q, r \in processed[s] :
        q # r /\ Online(s, q) /\ Online(s, r) => Visible(s, q).ip # Visible(s, r).ip
    /\ \A r \in Rows \ processed[s] : Online(s, r) => holder[r] = None
    /\ phase[s] \in {"sweeping", "resolved"} =>
        /\ left[s] \subseteq range[s]
        /\ \A r \in processed[s] : Online(s, r) => Visible(s, r).ip \in Answered(s)
    /\ phase[s] = "sweeping" => found[s] = None
    /\ phase[s] = "resolved" =>
        /\ host[s].ip \in range[s] \ left[s]
        /\ found[s] # None => seen[s] = Visible(s, found[s])
    /\ phase[s] = "missing" =>
        /\ \A r \in processed[s] : Online(s, r) => Visible(s, r).ip \in range[s]
        /\ \A r \in Rows \ processed[s] :
            Online(s, r) /\ Visible(s, r).ip \in range[s] => r \in missing[s]

Alone == \A s \in Sweeps : beside[s] = {}

AloneSeparates == Alone => OnlineAddressesDiffer /\ \A s \in Open : Separates(s)

IInv == Sound /\ Named /\ HistoryKept /\ AloneSeparates

----------------------------------------------------------------------------
(* What a step writes *)

Writes(s) == Update(s) \/ Insert(s) \/ Supersede(s) \/ TakeOffline(s)

Ends(s) == Commit(s) \/ Fail(s)

\* The version of r that a flush of s leaves: a new row for its host, or a newer
\* version of the row it was.
NewVersion(s, r, row) ==
    /\ row \in Row
    /\ IF Visible(s, r) = None
       THEN /\ Unused(r)
            /\ phase[s] = "resolved"
            /\ found[s] = None \/ Mismatch(host[s], seen[s])
            /\ row = Inserted(s, host[s])
       ELSE /\ row.by = Visible(s, r).by /\ row.mac = Visible(s, r).mac
            /\ Visible(s, r).logged = Visible(s, r).ip => row.logged = row.ip

\* A row that s holds, or that is free, and is not unused, has a version s sees.
LEMMA SeenIsStored ==
    ASSUME Sound, NEW s \in Sweeps, NEW r \in Rows, Visible(s, r) # None
    PROVE  Visible(s, r) \in Row /\ Current(s, r) = Visible(s, r)
  BY DEF Sound, TypeOK, Visible, Current

LEMMA HostFields ==
    ASSUME NEW h \in Host
    PROVE  h.ip \in Ips /\ h.mac \in Macs \union {None} /\ h.name \in Hostnames \union Ips
  BY DEF Host

LEMMA InsertedIsRow ==
    ASSUME NEW s \in Sweeps, NEW h \in Host
    PROVE  Inserted(s, h) \in Row
  BY HostFields DEF Inserted, Row

LEMMA UpdatedKeeps ==
    ASSUME NEW h \in Host, NEW read \in Row, NEW row \in Row
    PROVE  /\ Updated(h, read, row) \in Row
           /\ Updated(h, read, row).by = row.by /\ Updated(h, read, row).mac = row.mac
           /\ row.logged = row.ip =>
                Updated(h, read, row).logged = Updated(h, read, row).ip
           /\ read = row => Updated(h, read, row).ip = h.ip
  <1>1. h.ip \in Ips /\ h.name \in Hostnames \union Ips
    BY HostFields
  <1>2. Updated(h, read, row) \in Row
    <2>1. /\ (IF read.name # h.name THEN h.name ELSE row.name) \in Hostnames \union Ips
          /\ (IF read.online THEN row.online ELSE TRUE) \in BOOLEAN
          /\ (IF read.ip # h.ip THEN h.ip ELSE row.ip) \in Ips \union {None}
          /\ (IF read.ip # h.ip THEN h.ip ELSE row.logged) \in Ips \union {None}
      BY <1>1 DEF Row
    <2>2. \A n \in Hostnames \union Ips, b \in BOOLEAN, a, l \in Ips \union {None} :
            [row EXCEPT !.name = n, !.online = b, !.ip = a, !.logged = l] \in Row
      BY DEF Row
    <2>3. QED
      BY <2>1, <2>2 DEF Updated
  <1>3. /\ Updated(h, read, row).by = row.by /\ Updated(h, read, row).mac = row.mac
        /\ Updated(h, read, row).ip = IF read.ip # h.ip THEN h.ip ELSE row.ip
        /\ Updated(h, read, row).logged = IF read.ip # h.ip THEN h.ip ELSE row.logged
    BY DEF Updated, Row
  <1>4. QED
    BY <1>2, <1>3

LEMMA RetiredKeeps ==
    ASSUME NEW read \in Row, NEW row \in Row
    PROVE  /\ Retired(read, row) \in Row
           /\ Retired(read, row).by = row.by /\ Retired(read, row).mac = row.mac
           /\ Retired(read, row).logged = Retired(read, row).ip
           /\ read = row => ~Retired(read, row).online
  BY DEF Retired, Row

\* A flush writes only rows that are free, and each as a newer version.
LEMMA WritesVersions ==
    ASSUME Sound, NEW s \in Sweeps, Writes(s)
    PROVE  /\ UNCHANGED <<stored, range, left, beside>>
           /\ s \in Open
           /\ open' = [r \in Rows |-> open'[r]]
           /\ holder' = [r \in Rows |-> holder'[r]]
           /\ \A r \in Rows :
                \/ open'[r] = open[r] /\ holder'[r] = holder[r]
                \/ /\ RowFree(s, r) /\ holder'[r] = s
                   /\ NewVersion(s, r, open'[r])
  <1>1. CASE Update(s)
    <2>1. /\ found[s] \in Rows /\ seen[s] \in Row /\ host[s] \in Host
          /\ Visible(s, found[s]) # None /\ Visible(s, found[s]) \in Row
          /\ Current(s, found[s]) = Visible(s, found[s])
      BY <1>1, SeenIsStored DEF Update, Sound, Followed, TypeOK, Present
    <2>2. NewVersion(s, found[s], Updated(host[s], seen[s], Current(s, found[s])))
      BY <2>1, UpdatedKeeps DEF NewVersion
    <2>3. QED
      BY <1>1, <2>1, <2>2 DEF Update, Processed, Flush, Open
  <1>2. CASE Insert(s)
    <2>1. PICK new \in Rows :
            /\ Unused(new)
            /\ Flush(s, [r \in {new} |-> Inserted(s, host[s])])
            /\ Processed(s, new)
      BY <1>2 DEF Insert
    <2>2. host[s] \in Host
      BY <1>2 DEF Insert, Sound, Followed, TypeOK
    <2>3. NewVersion(s, new, Inserted(s, host[s])) /\ RowFree(s, new)
      BY <1>2, <2>1, <2>2, InsertedIsRow, NoneIsNothing
      DEF NewVersion, Insert, Unused, Visible, RowFree
    <2>4. QED
      BY <1>2, <2>1, <2>3 DEF Insert, Processed, Flush, Open
  <1>3. CASE Supersede(s)
    <2>1. PICK new \in Rows :
            /\ Unused(new)
            /\ Flush(s, [r \in {found[s], new} |->
                    IF r = new THEN Inserted(s, host[s])
                               ELSE Retired(seen[s], Current(s, r))])
            /\ Processed(s, new)
      BY <1>3 DEF Supersede
    <2>2. /\ found[s] \in Rows /\ seen[s] \in Row /\ host[s] \in Host
          /\ Visible(s, found[s]) # None /\ Visible(s, found[s]) \in Row
          /\ Current(s, found[s]) = Visible(s, found[s])
      BY <1>3, SeenIsStored DEF Supersede, Sound, Followed, TypeOK, Present
    <2>3. NewVersion(s, new, Inserted(s, host[s])) /\ RowFree(s, new)
      BY <1>3, <2>1, <2>2, InsertedIsRow, NoneIsNothing
      DEF NewVersion, Supersede, Unused, Visible, RowFree
    <2>4. NewVersion(s, found[s], Retired(seen[s], Current(s, found[s])))
      BY <2>2, RetiredKeeps DEF NewVersion
    <2>5. QED
      BY <1>3, <2>1, <2>2, <2>3, <2>4 DEF Supersede, Processed, Flush, Open
  <1>4. CASE TakeOffline(s)
    <2>1. PICK r \in missing[s] :
            /\ RowFree(s, r)
            /\ Flush(s, [q \in {r} |-> [Current(s, r) EXCEPT !.online = FALSE]])
      BY <1>4 DEF TakeOffline
    <2>2. /\ r \in Rows /\ Visible(s, r) # None /\ Visible(s, r) \in Row
          /\ Current(s, r) = Visible(s, r)
      BY <2>1, SeenIsStored DEF Sound, Followed, TypeOK, Present
    <2>3. NewVersion(s, r, [Current(s, r) EXCEPT !.online = FALSE])
      BY <2>2 DEF NewVersion, Row
    <2>4. QED
      BY <1>4, <2>1, <2>2, <2>3 DEF TakeOffline, Flush, Open
  <1>5. QED
    BY <1>1, <1>2, <1>3, <1>4 DEF Writes

\* Only s sees what s flushes, and every row stays visible.
LEMMA WritesSeen ==
    ASSUME Sound, NEW s \in Sweeps, Writes(s)
    PROVE  /\ \A t \in Sweeps, r \in Rows : t # s => Visible(t, r)' = Visible(t, r)
           /\ \A r \in Rows :
                \/ /\ Visible(s, r)' = Visible(s, r)
                   /\ open'[r] = open[r] /\ holder'[r] = holder[r]
                \/ /\ RowFree(s, r) /\ holder'[r] = s
                   /\ Visible(s, r)' = open'[r]
                   /\ NewVersion(s, r, Visible(s, r)')
           /\ \A t \in Sweeps : Present(t) \subseteq Present(t)'
  <1>1. \A t \in Sweeps, r \in Rows : t # s => Visible(t, r)' = Visible(t, r)
    BY WritesVersions, NoneIsNothing DEF Visible, RowFree, Sound, TypeOK
  <1>2. \A r \in Rows :
            \/ /\ Visible(s, r)' = Visible(s, r)
               /\ open'[r] = open[r] /\ holder'[r] = holder[r]
            \/ /\ RowFree(s, r) /\ holder'[r] = s
               /\ Visible(s, r)' = open'[r]
               /\ NewVersion(s, r, Visible(s, r)')
    BY WritesVersions DEF Visible
  <1>3. \A r \in Rows : NewVersion(s, r, Visible(s, r)') => Visible(s, r)' # None
    BY NoneIsNoRecord DEF NewVersion
  <1>4. QED
    BY <1>1, <1>2, <1>3 DEF Present

\* A transaction that ends lets go of its rows; what it commits is what it held.
LEMMA EndsSeen ==
    ASSUME Sound, NEW s \in Sweeps, Ends(s)
    PROVE  /\ s \in Open /\ Open' = Open \ {s}
           /\ phase' = [phase EXCEPT ![s] = phase'[s]]
           /\ phase'[s] = "done" \/ (phase'[s] = "failed" /\ stored' = stored)
           /\ UNCHANGED beside
           /\ stored' = [r \in Rows |-> stored'[r]]
           /\ \A r \in Rows :
                /\ stored'[r] = stored[r] \/ (holder[r] = s /\ stored'[r] = open[r])
                /\ IF holder[r] = s
                   THEN open'[r] = None /\ holder'[r] = None
                   ELSE open'[r] = open[r] /\ holder'[r] = holder[r]
           /\ \A t \in Sweeps, r \in Rows : t # s =>
                \/ Visible(t, r)' = Visible(t, r)
                \/ /\ holder[r] = s /\ stored'[r] = open[r]
                   /\ Visible(t, r) = stored[r] /\ Visible(t, r)' = open[r]
           /\ \A t \in Sweeps : t # s => Present(t) \subseteq Present(t)'
  <1>1. s \in Open /\ LetGo(s) /\ phase' = [phase EXCEPT ![s] = phase'[s]]
        /\ phase'[s] \in {"done", "failed"} /\ (phase'[s] = "failed" => stored' = stored)
        /\ UNCHANGED beside
        /\ \/ stored' = stored
           \/ stored' = [r \in Rows |-> IF r \in Held(s) THEN open[r] ELSE stored[r]]
    BY DEF Ends, Commit, Fail, LetGo, Open, Sound, TypeOK
  <1>2. Open' = Open \ {s}
    BY <1>1 DEF Open, Sound, TypeOK
  <1>3. \A r \in Rows :
            /\ stored'[r] = stored[r] \/ (holder[r] = s /\ stored'[r] = open[r])
            /\ IF holder[r] = s
               THEN open'[r] = None /\ holder'[r] = None
               ELSE open'[r] = open[r] /\ holder'[r] = holder[r]
    <2>1. \A r \in Rows : r \in Held(s) <=> holder[r] = s
      BY DEF Held
    <2>2. \A r \in Rows :
            IF holder[r] = s
            THEN open'[r] = None /\ holder'[r] = None
            ELSE open'[r] = open[r] /\ holder'[r] = holder[r]
      BY <1>1, <2>1 DEF LetGo
    <2>3. \A r \in Rows : stored'[r] = stored[r] \/ (holder[r] = s /\ stored'[r] = open[r])
      BY <1>1, <2>1
    <2>4. QED
      BY <2>2, <2>3
  <1>4. \A t \in Sweeps, r \in Rows : t # s =>
            \/ Visible(t, r)' = Visible(t, r)
            \/ /\ holder[r] = s /\ stored'[r] = open[r]
               /\ Visible(t, r) = stored[r] /\ Visible(t, r)' = open[r]
    BY <1>3, NoneIsNothing DEF Visible
  <1>5. \A r \in Rows : holder[r] = s => open[r] # None
    BY NoneIsNothing DEF Sound, Locks
  <1>6. \A t \in Sweeps : t # s => Present(t) \subseteq Present(t)'
    BY <1>4, <1>5 DEF Present
  <1>7. stored' = [r \in Rows |-> stored'[r]]
    BY <1>1 DEF Sound, TypeOK
  <1>8. QED
    BY <1>1, <1>2, <1>3, <1>4, <1>6, <1>7

----------------------------------------------------------------------------
(* Types, locks, and the rows a sweep knows *)

LEMMA InitSound == Init => Sound
  BY DEF Init, Sound, TypeOK, Locks, Followed, Open

LEMMA BeginSound ==
    ASSUME Sound, NEW s \in Sweeps, Begin(s)
    PROVE  Sound'
  <1>1. /\ Open' = Open \union {s} /\ s \notin Open
        /\ phase' = [phase EXCEPT ![s] = "sweeping"]
        /\ UNCHANGED <<stored, open, holder, host, found, seen, processed, missing>>
    BY DEF Begin, Open, Sound, TypeOK
  <1>2. TypeOK'
    <2>1. \A t \in Sweeps : beside'[t] \in SUBSET Sweeps
      BY DEF Begin, Sound, TypeOK, Open
    <2>2. beside' \in [Sweeps -> SUBSET Sweeps]
      BY <2>1 DEF Begin
    <2>3. QED
      BY <1>1, <2>2, RangesOfAddresses DEF Begin, Sound, TypeOK
  <1>3. Locks'
    BY <1>1 DEF Sound, Locks
  <1>4. \A t \in Sweeps : Present(t)' = Present(t)
    BY <1>1 DEF Present, Visible
  <1>5. Followed'
    BY <1>1, <1>4 DEF Sound, Followed, TypeOK
  <1>6. QED
    BY <1>2, <1>3, <1>5 DEF Sound

LEMMA ResolveSound ==
    ASSUME Sound, NEW s \in Sweeps, Resolve(s)
    PROVE  Sound'
  <1>1. /\ Open' = Open /\ s \in Open
        /\ phase' = [phase EXCEPT ![s] = "resolved"]
        /\ UNCHANGED <<stored, open, holder, range, processed, missing, beside>>
    BY DEF Resolve, Open, Sound, TypeOK
  <1>2. PICK ip \in left[s], h \in Host :
            /\ h \in Answers(ip)
            /\ left' = [left EXCEPT ![s] = @ \ {ip}]
            /\ host' = [host EXCEPT ![s] = h]
            /\ \/ /\ Match(s, h) = {}
                  /\ UNCHANGED <<found, seen>>
               \/ \E r \in Match(s, h) :
                    /\ found' = [found EXCEPT ![s] = r]
                    /\ seen' = [seen EXCEPT ![s] = Visible(s, r)]
    BY DEF Resolve, Answers
  <1>4. Match(s, h) \subseteq Present(s) /\ Present(s) \subseteq Rows
    BY DEF Match, Candidates, Present
  <1>5. \A r \in Present(s) : Visible(s, r) \in Row /\ Visible(s, r) # None
    BY SeenIsStored DEF Present
  <1>6. TypeOK'
    BY <1>1, <1>2, <1>4, <1>5 DEF Sound, TypeOK
  <1>7. Locks'
    BY <1>1 DEF Sound, Locks
  <1>8. \A t \in Sweeps : Present(t)' = Present(t)
    BY <1>1 DEF Present, Visible
  <1>9. /\ host'[s] # None
        /\ found'[s] # None => found'[s] \in Present(s) /\ seen'[s] # None
        /\ \A t \in Sweeps \ {s} :
            host'[t] = host[t] /\ found'[t] = found[t] /\ seen'[t] = seen[t]
    BY <1>2, <1>4, <1>5, NoneIsNoRecord DEF Sound, TypeOK, Followed
  <1>10. Followed'
    BY <1>1, <1>8, <1>9 DEF Sound, Followed, TypeOK
  <1>11. QED
    BY <1>6, <1>7, <1>10 DEF Sound

LEMMA SelectMissingSound ==
    ASSUME Sound, NEW s \in Sweeps, SelectMissing(s)
    PROVE  Sound'
  <1>1. /\ Open' = Open /\ s \in Open
        /\ phase' = [phase EXCEPT ![s] = "missing"]
        /\ missing' = [missing EXCEPT ![s] = Missing(s)]
        /\ Missing(s) \subseteq Present(s) /\ Present(s) \subseteq Rows
        /\ UNCHANGED <<stored, open, holder, range, host, found, seen, processed, beside>>
    BY DEF SelectMissing, Open, Sound, TypeOK, Missing, Present
  <1>2. TypeOK'
    BY <1>1 DEF SelectMissing, Sound, TypeOK
  <1>3. Locks'
    BY <1>1 DEF Sound, Locks
  <1>4. \A t \in Sweeps : Present(t)' = Present(t)
    BY <1>1 DEF Present, Visible
  <1>5. Followed'
    BY <1>1, <1>4 DEF Sound, Followed, TypeOK
  <1>6. QED
    BY <1>2, <1>3, <1>5 DEF Sound

LEMMA EndsSound ==
    ASSUME Sound, NEW s \in Sweeps, Ends(s)
    PROVE  Sound'
  <1>1. /\ LetGo(s) /\ phase'[s] \in {"done", "failed"}
    BY DEF Ends, Commit, Fail, Sound, TypeOK
  <1>2. TypeOK'
    <2>1. \A r \in Rows :
            /\ stored'[r] \in Row \union {None} /\ open'[r] \in Row \union {None}
            /\ holder'[r] \in Sweeps \union {None}
      BY EndsSeen DEF Sound, TypeOK
    <2>2. /\ stored' \in [Rows -> Row \union {None}]
          /\ open' \in [Rows -> Row \union {None}]
          /\ holder' \in [Rows -> Sweeps \union {None}]
      BY <1>1, <2>1, EndsSeen DEF LetGo
    <2>3. phase' \in [Sweeps -> {"idle", "sweeping", "resolved", "missing", "done", "failed"}]
      BY <1>1, EndsSeen DEF Sound, TypeOK
    <2>4. QED
      BY <1>1, <2>2, <2>3 DEF LetGo, Sound, TypeOK
  <1>3. Locks'
    BY EndsSeen DEF Sound, Locks
  <1>4. /\ found'[s] = None /\ missing'[s] = {} /\ processed'[s] = {}
        /\ \A t \in Sweeps \ {s} :
            /\ phase'[t] = phase[t] /\ host'[t] = host[t] /\ found'[t] = found[t]
            /\ seen'[t] = seen[t] /\ missing'[t] = missing[t] /\ processed'[t] = processed[t]
    BY <1>1, EndsSeen DEF LetGo, Sound, TypeOK
  <1>5. Followed'
    BY <1>1, <1>4, EndsSeen DEF Sound, Followed
  <1>6. QED
    BY <1>2, <1>3, <1>5 DEF Sound

\* What a flush does to the sweep: the host is processed, or a missing device has
\* been taken offline.
LEMMA WritesSweep ==
    ASSUME Sound, NEW s \in Sweeps, Writes(s)
    PROVE  /\ Open' = Open
           /\ \A t \in Sweeps : phase'[t] = "idle" <=> phase[t] = "idle"
           /\ \A t \in Sweeps : phase'[t] = "done" <=> phase[t] = "done"
           /\ phase'[s] \in {"sweeping", "missing"}
           /\ \A t \in Sweeps \ {s} :
                /\ phase'[t] = phase[t] /\ host'[t] = host[t] /\ found'[t] = found[t]
                /\ seen'[t] = seen[t] /\ missing'[t] = missing[t]
                /\ processed'[t] = processed[t]
           /\ found'[s] \in {None, found[s]}
           /\ seen'[s] \in {None, seen[s]} /\ (found'[s] # None => seen'[s] = seen[s])
           /\ host'[s] \in {None, host[s]}
           /\ missing'[s] \subseteq missing[s]
           /\ \E r \in Rows : /\ holder'[r] = s
                              /\ processed'[s] \in {processed[s], processed[s] \union {r}}
  <1>1. ASSUME NEW r \in Rows, Processed(s, r), phase[s] = "resolved", holder'[r] = s
        PROVE  /\ phase' = [phase EXCEPT ![s] = "sweeping"]
               /\ host' = [host EXCEPT ![s] = None]
               /\ found' = [found EXCEPT ![s] = None]
               /\ seen' = [seen EXCEPT ![s] = None]
               /\ processed' = [processed EXCEPT ![s] = @ \union {r}]
               /\ missing' = missing
    BY <1>1 DEF Processed
  <1>2. CASE TakeOffline(s)
    BY <1>2, WritesVersions DEF TakeOffline, Flush, Sound, TypeOK, Open
  <1>3. CASE Update(s) \/ Insert(s) \/ Supersede(s)
    <2>1. PICK r \in Rows : Processed(s, r) /\ holder'[r] = s
      <3>1. CASE Update(s)
        <4>1. found[s] \in Rows
          BY <3>1 DEF Update, Sound, TypeOK
        <4>2. QED
          BY <3>1, <4>1 DEF Update, Flush
      <3>2. CASE Insert(s)
        BY <3>2 DEF Insert, Flush
      <3>3. CASE Supersede(s)
        BY <3>3 DEF Supersede, Flush
      <3>4. QED
        BY <1>3, <3>1, <3>2, <3>3
    <2>2. phase[s] = "resolved"
      BY <1>3 DEF Update, Insert, Supersede
    <2>3. QED
      BY <1>1, <2>1, <2>2 DEF Sound, TypeOK, Open
  <1>4. QED
    BY <1>2, <1>3 DEF Writes

LEMMA WritesSound ==
    ASSUME Sound, NEW s \in Sweeps, Writes(s)
    PROVE  Sound'
  <1>1. TypeOK'
    <2>1. /\ stored' = stored /\ range' = range /\ left' = left /\ beside' = beside
          /\ open' \in [Rows -> Row \union {None}]
          /\ holder' \in [Rows -> Sweeps \union {None}]
      <3>1. \A r \in Rows :
              /\ open'[r] \in Row \union {None} /\ holder'[r] \in Sweeps \union {None}
        BY WritesVersions DEF NewVersion, Sound, TypeOK
      <3>2. QED
        BY <3>1, WritesVersions
    <2>2. CASE TakeOffline(s)
      BY <2>1, <2>2 DEF TakeOffline, Sound, TypeOK
    <2>3. CASE Update(s)
      BY <2>1, <2>3 DEF Update, Processed, Sound, TypeOK
    <2>4. CASE Insert(s)
      BY <2>1, <2>4 DEF Insert, Processed, Sound, TypeOK
    <2>5. CASE Supersede(s)
      BY <2>1, <2>5 DEF Supersede, Processed, Sound, TypeOK
    <2>6. QED
      BY <2>2, <2>3, <2>4, <2>5 DEF Writes
  <1>2. Locks'
    <2>1. \A r \in Rows : NewVersion(s, r, open'[r]) => open'[r] # None
      BY NoneIsNoRecord DEF NewVersion
    <2>2. \A r \in Rows : \/ (open'[r] = open[r] /\ holder'[r] = holder[r])
                          \/ (open'[r] # None /\ holder'[r] = s)
      BY <2>1, WritesVersions
    <2>3. s \in Open /\ Open' = Open
      BY WritesVersions, WritesSweep
    <2>4. QED
      BY <2>2, <2>3, NoneIsNothing DEF Sound, Locks
  <1>3. Followed'
    <2>1. /\ phase'[s] # "resolved"
          /\ found'[s] # None => found'[s] \in Present(s)' /\ seen'[s] # None
          /\ missing'[s] \subseteq Present(s)'
      BY WritesSweep, WritesSeen DEF Sound, Followed
    <2>2. processed'[s] \subseteq Present(s)'
      <3>1. PICK r \in Rows : /\ holder'[r] = s
                              /\ processed'[s] \in {processed[s], processed[s] \union {r}}
        BY WritesSweep
      <3>2. r \in Present(s)'
        BY <1>2, <3>1, NoneIsNothing DEF Present, Visible, Locks
      <3>3. QED
        BY <3>1, <3>2, WritesSeen DEF Sound, Followed
    <2>3. s \in Open'
      BY WritesVersions, WritesSweep
    <2>4. ASSUME NEW t \in Sweeps \ {s}
          PROVE  /\ phase'[t] = "resolved" => host'[t] # None
                 /\ found'[t] # None => found'[t] \in Present(t)' /\ seen'[t] # None
                 /\ missing'[t] \subseteq Present(t)'
                 /\ processed'[t] \subseteq Present(t)'
                 /\ t \notin Open' => /\ found'[t] = None
                                      /\ missing'[t] = {} /\ processed'[t] = {}
      <3>1. Present(t) \subseteq Present(t)'
        BY WritesSeen
      <3>2. QED
        BY <3>1, WritesSweep DEF Sound, Followed
    <2>5. QED
      BY <2>1, <2>2, <2>3, <2>4 DEF Followed
  <1>4. QED
    BY <1>1, <1>2, <1>3 DEF Sound

LEMMA NextCases ==
    ASSUME [Next]_vars
    PROVE  \/ UNCHANGED vars
           \/ \E s \in Sweeps : \/ Begin(s) \/ Resolve(s) \/ SelectMissing(s)
                                \/ Writes(s) \/ Ends(s)
  BY DEF Next, Writes, Ends

LEMMA SoundStep ==
    ASSUME Sound, [Next]_vars
    PROVE  Sound'
  <1>1. CASE UNCHANGED vars
    BY <1>1 DEF vars, Sound, TypeOK, Locks, Followed, Open, Present, Visible
  <1>2. ASSUME NEW s \in Sweeps,
               Begin(s) \/ Resolve(s) \/ SelectMissing(s) \/ Writes(s) \/ Ends(s)
        PROVE  Sound'
    BY <1>2, BeginSound, ResolveSound, SelectMissingSound, WritesSound, EndsSound
  <1>3. QED
    BY <1>1, <1>2, NextCases

----------------------------------------------------------------------------
(* The address history *)

LEMMA InitHistory == Init => HistoryKept
  BY DEF Init, HistoryKept

LEMMA HistoryStep ==
    ASSUME Sound, HistoryKept, [Next]_vars
    PROVE  HistoryKept'
  <1>1. CASE UNCHANGED vars
    BY <1>1 DEF vars, HistoryKept
  <1>2. ASSUME NEW s \in Sweeps, Begin(s) \/ Resolve(s) \/ SelectMissing(s)
        PROVE  HistoryKept'
    BY <1>2 DEF Begin, Resolve, SelectMissing, HistoryKept
  <1>3. ASSUME NEW s \in Sweeps, Writes(s)
        PROVE  HistoryKept'
    <2>1. ASSUME NEW r \in Rows, NewVersion(s, r, open'[r])
          PROVE  open'[r].logged = open'[r].ip
      <3>1. CASE Visible(s, r) = None
        BY <2>1, <3>1 DEF NewVersion, Inserted
      <3>2. CASE Visible(s, r) # None
        BY <2>1, <3>2 DEF NewVersion, Visible, HistoryKept
      <3>3. QED
        BY <3>1, <3>2
    <2>2. QED
      BY <1>3, <2>1, WritesVersions DEF HistoryKept
  <1>4. ASSUME NEW s \in Sweeps, Ends(s)
        PROVE  HistoryKept'
    BY <1>4, EndsSeen DEF HistoryKept
  <1>5. QED
    BY <1>1, <1>2, <1>3, <1>4, NextCases

----------------------------------------------------------------------------
(* Hardware addresses *)

LEMMA InitNamed == Init => Named
  BY DEF Init, Named, Neighbours, Authors, Fresh, FreshRows, MacNamesOneDevice,
         Stored, Open, OnlyBeside, Visible

LEMMA NeighboursStep ==
    ASSUME Sound, Neighbours, [Next]_vars
    PROVE  Neighbours' /\ \A s, t \in Sweeps : t \in beside[s] => t \in beside'[s]
  <1>1. CASE UNCHANGED vars
    BY <1>1 DEF vars, Neighbours, Open
  <1>2. ASSUME NEW s \in Sweeps, Begin(s)
        PROVE  Neighbours' /\ \A u, t \in Sweeps : t \in beside[u] => t \in beside'[u]
    <2>1. /\ phase[s] = "idle" /\ phase' = [phase EXCEPT ![s] = "sweeping"]
          /\ s \notin Open /\ Open' = Open \union {s} /\ Open \subseteq Sweeps
      BY <1>2 DEF Begin, Sound, TypeOK, Open
    <2>2. \A t \in Sweeps : beside'[t] = IF t \in Open THEN beside[t] \union {s}
                                      ELSE IF t = s THEN Open ELSE beside[t]
      BY <1>2 DEF Begin
    <2>3. beside[s] = {} /\ \A t \in Sweeps : s \notin beside[t]
      BY <2>1 DEF Neighbours
    <2>4. /\ beside'[s] = Open
          /\ \A t \in Open : beside'[t] = beside[t] \union {s}
          /\ \A t \in Sweeps \ (Open \union {s}) : beside'[t] = beside[t]
      BY <2>1, <2>2
    <2>5. \A u, t \in Sweeps : t \in beside[u] => t \in beside'[u]
      BY <2>3, <2>4
    <2>6. \A u, t \in Sweeps : t \in beside'[u] => u \in beside'[t]
      BY <2>1, <2>3, <2>4 DEF Neighbours
    <2>7. \A u, t \in Sweeps : u \in Open' /\ t \in Open' /\ u # t => t \in beside'[u]
      BY <2>1, <2>4 DEF Neighbours
    <2>8. \A u \in Sweeps : phase'[u] = "idle" => beside'[u] = {}
      BY <2>1, <2>4 DEF Neighbours, Sound, TypeOK, Open
    <2>9. \A u \in Sweeps : u \notin beside'[u]
      BY <2>1, <2>4 DEF Neighbours
    <2>10. QED
      BY <2>5, <2>6, <2>7, <2>8, <2>9 DEF Neighbours
  <1>3. ASSUME NEW s \in Sweeps, Resolve(s) \/ SelectMissing(s)
        PROVE  beside' = beside /\ Open' = Open
               /\ \A t \in Sweeps : phase'[t] = "idle" => phase[t] = "idle"
    BY <1>3 DEF Resolve, SelectMissing, Open, Sound, TypeOK
  <1>4. ASSUME NEW s \in Sweeps, Writes(s)
        PROVE  beside' = beside /\ Open' = Open
               /\ \A t \in Sweeps : phase'[t] = "idle" => phase[t] = "idle"
    BY <1>4, WritesVersions, WritesSweep
  <1>5. ASSUME NEW s \in Sweeps, Ends(s)
        PROVE  beside' = beside /\ Open' \subseteq Open
               /\ \A t \in Sweeps : phase'[t] = "idle" => phase[t] = "idle"
    BY <1>5, EndsSeen DEF Sound, TypeOK
  <1>6. QED
    BY <1>1, <1>2, <1>3, <1>4, <1>5, NextCases DEF Neighbours

LEMMA AuthorsStep ==
    ASSUME Sound, Authors, [Next]_vars
    PROVE  Authors'
  <1>0. \A r \in Rows : stored[r] # None => stored[r].by \in Sweeps
    BY DEF Sound, TypeOK, Row
  <1>1. CASE UNCHANGED vars
    BY <1>1 DEF vars, Authors
  <1>2. ASSUME NEW s \in Sweeps, Begin(s) \/ Resolve(s) \/ SelectMissing(s)
        PROVE  Authors'
    <2>1. /\ UNCHANGED <<stored, open, holder>>
          /\ \A t \in Sweeps : phase[t] = "done" => phase'[t] = "done"
      BY <1>2 DEF Begin, Resolve, SelectMissing, Sound, TypeOK
    <2>2. QED
      BY <1>0, <2>1 DEF Authors
  <1>3. ASSUME NEW s \in Sweeps, Writes(s)
        PROVE  Authors'
    <2>1. stored' = stored /\ \A t \in Sweeps : phase[t] = "done" => phase'[t] = "done"
      BY <1>3, WritesVersions, WritesSweep
    <2>2. ASSUME NEW r \in Rows, RowFree(s, r), NewVersion(s, r, open'[r])
          PROVE  IF stored[r] = None THEN open'[r].by = s
                 ELSE open'[r].by = stored[r].by /\ open'[r].mac = stored[r].mac
      <3>1. CASE Visible(s, r) = None
        BY <2>2, <3>1 DEF NewVersion, Inserted, Unused
      <3>2. CASE Visible(s, r) # None
        BY <2>2, <3>2, NoneIsNothing DEF NewVersion, Visible, RowFree, Authors
      <3>3. QED
        BY <3>1, <3>2
    <2>3. QED
      BY <1>0, <1>3, <2>1, <2>2, WritesVersions DEF Authors
  <1>4. ASSUME NEW s \in Sweeps, Ends(s)
        PROVE  Authors'
    <2>1. ASSUME NEW r \in Rows
          PROVE  /\ stored'[r] # None => phase'[stored'[r].by] = "done"
                 /\ holder'[r] # None =>
                    IF stored'[r] = None THEN open'[r].by = holder'[r]
                    ELSE open'[r].by = stored'[r].by /\ open'[r].mac = stored'[r].mac
      <3>1. phase[s] # "done" /\ \A t \in Sweeps : phase[t] = "done" => phase'[t] = "done"
        BY <1>4, EndsSeen DEF Sound, TypeOK, Open
      <3>2. CASE stored'[r] = stored[r]
        BY <1>0, <1>4, <3>1, <3>2, EndsSeen, NoneIsNothing DEF Authors
      <3>3. CASE stored'[r] # stored[r]
        <4>1. holder[r] = s /\ stored'[r] = open[r] /\ holder'[r] = None /\ phase'[s] = "done"
          BY <1>4, <3>3, EndsSeen
        <4>2. QED
          BY <1>0, <3>1, <4>1, NoneIsNothing DEF Authors
      <3>4. QED
        BY <3>2, <3>3
    <2>2. QED
      BY <2>1 DEF Authors
  <1>5. QED
    BY <1>1, <1>2, <1>3, <1>4, NextCases

\* A flush inserts at most one row.
LEMMA OneInserted ==
    ASSUME Sound, NEW s \in Sweeps, Writes(s),
           NEW q \in Rows, Visible(s, q) = None, Visible(s, q)' # None,
           NEW r \in Rows, Visible(s, r) = None, Visible(s, r)' # None
    PROVE  q = r
  <1>1. ASSUME NEW p \in Rows, Visible(s, p) = None, Visible(s, p)' # None
        PROVE  /\ holder'[p] = s /\ holder[p] # s
    BY <1>1, WritesVersions, NoneIsNothing DEF Visible, Sound, Locks
  <1>2. CASE TakeOffline(s)
    <2>1. \A p \in Rows : holder'[p] = s => holder[p] = s \/ p \in missing[s]
      BY <1>2 DEF TakeOffline, Flush
    <2>2. QED
      BY <1>1, <2>1 DEF Sound, Followed, Present
  <1>3. CASE Update(s)
    <2>1. \A p \in Rows : holder'[p] = s => holder[p] = s \/ p = found[s]
      BY <1>3 DEF Update, Flush
    <2>2. QED
      BY <1>1, <1>3, <2>1 DEF Sound, Followed, Present, Update
  <1>4. CASE Insert(s)
    <2>1. PICK new \in Rows : \A p \in Rows : holder'[p] = s => holder[p] = s \/ p = new
      BY <1>4 DEF Insert, Flush
    <2>2. QED
      BY <1>1, <2>1
  <1>5. CASE Supersede(s)
    <2>1. PICK new \in Rows :
            \A p \in Rows : holder'[p] = s => holder[p] = s \/ p \in {found[s], new}
      BY <1>5 DEF Supersede, Flush
    <2>2. found[s] \in Present(s)
      BY <1>5 DEF Supersede, Sound, Followed
    <2>3. QED
      BY <1>1, <2>1, <2>2 DEF Present
  <1>6. QED
    BY <1>2, <1>3, <1>4, <1>5 DEF Writes

\* What s sees with a hardware address comes from sweeps beside it, whatever the
\* other sweeps commit, and whatever it flushes itself but for a row it inserts.
LEMMA OnlyBesideKept ==
    ASSUME Sound, Neighbours, Authors, [Next]_vars,
           NEW s \in Open, s \in Open', NEW mac, NEW self, OnlyBeside(s, mac, self),
           NEW r \in Rows \ self, Visible(s, r)' # None, Visible(s, r)'.mac = mac,
           ~(Writes(s) /\ Visible(s, r) = None)
    PROVE  Visible(s, r)'.by \in beside'[s]
  <1>0. s \in Sweeps
    BY DEF Open
  <1>1. \A t \in Sweeps : t \in beside[s] => t \in beside'[s]
    BY <1>0, NeighboursStep
  <1>2. Visible(s, r) # None => Visible(s, r).by \in Sweeps
    BY <1>0, SeenIsStored DEF Row
  <1>3. CASE Visible(s, r)' = Visible(s, r)
    BY <1>1, <1>2, <1>3 DEF OnlyBeside
  <1>4. ASSUME NEW t \in Sweeps, Begin(t) \/ Resolve(t) \/ SelectMissing(t)
        PROVE  Visible(s, r)' = Visible(s, r)
    BY <1>4 DEF Begin, Resolve, SelectMissing, Visible
  <1>5. ASSUME NEW t \in Sweeps, Writes(t), Visible(s, r)' # Visible(s, r)
        PROVE  Visible(s, r)'.by \in beside'[s]
    <2>1. t = s
      BY <1>0, <1>5, WritesSeen
    <2>2. Visible(s, r) # None /\ NewVersion(s, r, Visible(s, r)')
      BY <1>0, <1>5, <2>1, WritesSeen
    <2>3. Visible(s, r)'.by = Visible(s, r).by /\ Visible(s, r).mac = mac
      BY <2>2 DEF NewVersion
    <2>4. QED
      BY <1>1, <1>2, <2>2, <2>3 DEF OnlyBeside
  <1>6. ASSUME NEW t \in Sweeps, Ends(t), Visible(s, r)' # Visible(s, r)
        PROVE  Visible(s, r)'.by \in beside'[s]
    <2>1. t # s /\ t \in Open
      BY <1>6, EndsSeen
    <2>2. /\ holder[r] = t /\ Visible(s, r) = stored[r] /\ Visible(s, r)' = open[r]
      BY <1>0, <1>6, <2>1, EndsSeen
    <2>3. CASE stored[r] = None
      <3>1. open[r].by = t
        BY <2>2, <2>3, NoneIsNothing DEF Authors
      <3>2. t \in beside[s]
        BY <1>0, <2>1 DEF Neighbours
      <3>3. QED
        BY <1>1, <2>2, <3>1, <3>2
    <2>4. CASE stored[r] # None
      <3>1. open[r].by = stored[r].by /\ open[r].mac = stored[r].mac
        BY <2>2, <2>4, NoneIsNothing DEF Authors
      <3>2. QED
        BY <1>1, <1>2, <2>2, <2>4, <3>1 DEF OnlyBeside
    <2>5. QED
      BY <2>3, <2>4
  <1>7. CASE UNCHANGED vars
    BY <1>3, <1>7 DEF vars, Visible
  <1>8. QED
    BY <1>3, <1>4, <1>5, <1>6, <1>7, NextCases

\* A sweep that resolves a host and finds no row, or one with another hardware
\* address, sees no row with the address of the host.
LEMMA ResolveFresh ==
    ASSUME Sound, NEW s \in Sweeps, Resolve(s), host'[s].mac # None,
           found'[s] = None \/ Mismatch(host'[s], seen'[s])
    PROVE  \A r \in Rows : Visible(s, r)' # None => Visible(s, r)'.mac # host'[s].mac
  <1>1. PICK ip \in left[s], h \in Host :
            /\ h \in Answers(ip)
            /\ host' = [host EXCEPT ![s] = h]
            /\ \/ /\ Match(s, h) = {}
                  /\ UNCHANGED <<found, seen>>
               \/ \E r \in Match(s, h) :
                    /\ found' = [found EXCEPT ![s] = r]
                    /\ seen' = [seen EXCEPT ![s] = Visible(s, r)]
    BY DEF Resolve, Answers
  <1>2. host'[s] = h /\ h.mac # None
    BY <1>1 DEF Sound, TypeOK
  <1>3. \A r \in Rows : Visible(s, r)' = Visible(s, r)
    BY DEF Resolve, Visible
  <1> DEFINE same == {r \in Present(s) : Visible(s, r).mac = h.mac}
  <1>4. same = {}
    <2>1. Candidates(s, h)[1] = same
      BY <1>2 DEF Candidates
    <2>2. same # {} => Match(s, h) = same
      BY <2>1 DEF Match
    <2>3. CASE Match(s, h) = {}
      BY <2>2, <2>3
    <2>4. ASSUME NEW r \in Match(s, h), found' = [found EXCEPT ![s] = r],
                 seen' = [seen EXCEPT ![s] = Visible(s, r)]
          PROVE  same = {}
      <3>1. r \in Rows /\ found'[s] = r /\ seen'[s] = Visible(s, r)
        BY <2>4 DEF Sound, TypeOK, Match, Candidates, Present
      <3>2. Visible(s, r).mac # h.mac
        BY <1>2, <3>1, NoneIsNothing DEF Mismatch
      <3>3. QED
        BY <2>2, <2>4, <3>2
    <2>5. QED
      BY <1>1, <2>3, <2>4
  <1>5. QED
    BY <1>2, <1>3, <1>4 DEF Present

\* A sweep that is not the one that moves has the same host in hand.
LEMMA OthersHosts ==
    ASSUME Sound, [Next]_vars, NEW s \in Sweeps, phase'[s] = "resolved"
    PROVE  \/ Resolve(s)
           \/ /\ ~Writes(s) /\ phase[s] = "resolved"
              /\ host'[s] = host[s] /\ found'[s] = found[s] /\ seen'[s] = seen[s]
              /\ left'[s] = left[s] /\ range'[s] = range[s]
  <1>1. CASE UNCHANGED vars
    <2>1. ~Writes(s)
      BY <1>1, WritesSweep, SoundStep DEF vars
    <2>2. QED
      BY <1>1, <2>1 DEF vars
  <1>2. Writes(s) => phase'[s] # "resolved"
    BY WritesSweep
  <1>3. ASSUME NEW t \in Sweeps, Begin(t) \/ Resolve(t) \/ SelectMissing(t)
        PROVE  \/ Resolve(s)
               \/ /\ phase[s] = "resolved"
                  /\ host'[s] = host[s] /\ found'[s] = found[s] /\ seen'[s] = seen[s]
                  /\ left'[s] = left[s] /\ range'[s] = range[s]
    BY <1>3 DEF Begin, Resolve, SelectMissing, Sound, TypeOK
  <1>4. ASSUME NEW t \in Sweeps, Writes(t)
        PROVE  /\ phase[s] = "resolved"
               /\ host'[s] = host[s] /\ found'[s] = found[s] /\ seen'[s] = seen[s]
               /\ left'[s] = left[s] /\ range'[s] = range[s]
    BY <1>4, WritesSweep, WritesVersions
  <1>5. ASSUME NEW t \in Sweeps, Ends(t)
        PROVE  /\ phase[s] = "resolved"
               /\ host'[s] = host[s] /\ found'[s] = found[s] /\ seen'[s] = seen[s]
               /\ left'[s] = left[s] /\ range'[s] = range[s]
    BY <1>5 DEF Ends, Commit, Fail, LetGo, Sound, TypeOK
  <1>6. QED
    BY <1>1, <1>2, <1>3, <1>4, <1>5, NextCases

LEMMA FreshStep ==
    ASSUME Sound, Neighbours, Authors, Fresh, [Next]_vars
    PROVE  Fresh'
  <1> SUFFICES ASSUME NEW s \in Sweeps, phase'[s] = "resolved", host'[s].mac # None,
                      found'[s] = None \/ Mismatch(host'[s], seen'[s]),
                      NEW r \in Rows, Visible(s, r)' # None,
                      Visible(s, r)'.mac = host'[s].mac
               PROVE  Visible(s, r)'.by \in beside'[s]
    BY DEF Fresh, OnlyBeside, Mismatch
  <1>1. CASE Resolve(s)
    BY <1>1, ResolveFresh
  <1>2. CASE ~Resolve(s)
    <2>1. /\ ~Writes(s) /\ phase[s] = "resolved"
          /\ host'[s] = host[s] /\ found'[s] = found[s] /\ seen'[s] = seen[s]
      BY <1>2, OthersHosts
    <2>2. OnlyBeside(s, host[s].mac, {})
      BY <2>1 DEF Fresh
    <2>3. s \in Open /\ s \in Open'
      BY <2>1 DEF Open
    <2>4. QED
      BY <2>1, <2>2, <2>3, OnlyBesideKept
  <1>3. QED
    BY <1>1, <1>2

LEMMA FreshRowsStep ==
    ASSUME Sound, Neighbours, Authors, Fresh, FreshRows, [Next]_vars
    PROVE  FreshRows'
  <1>0. Sound' /\ Neighbours' /\ Authors'
    BY SoundStep, NeighboursStep, AuthorsStep
  <1> SUFFICES ASSUME NEW q \in Rows, NEW u \in Sweeps, holder'[q] = u,
                      stored'[q] = None, open'[q].mac # None,
                      NEW r \in Rows \ {q}, Visible(u, r)' # None,
                      Visible(u, r)'.mac = open'[q].mac
               PROVE  Visible(u, r)'.by \in beside'[u]
    BY <1>0 DEF FreshRows, OnlyBeside, Visible, Sound, TypeOK
  <1>1. u \in Open'
    BY <1>0, NoneIsNothing DEF Sound, Locks
  <1>2. Visible(u, q)' = open'[q] /\ open'[q] # None
    BY <1>0, NoneIsNothing DEF Visible, Sound, Locks
  <1>3. CASE holder[q] = u
    <2>1. stored[q] = None /\ u \in Open
      <3>1. u \in Open
        BY <1>3, NoneIsNothing DEF Sound, Locks
      <3>2. stored'[q] = stored[q]
        <4>1. CASE UNCHANGED vars
          BY <4>1 DEF vars
        <4>2. ASSUME NEW t \in Sweeps, Begin(t) \/ Resolve(t) \/ SelectMissing(t)
              PROVE  stored'[q] = stored[q]
          BY <4>2 DEF Begin, Resolve, SelectMissing
        <4>3. ASSUME NEW t \in Sweeps, Writes(t)
              PROVE  stored'[q] = stored[q]
          BY <4>3, WritesVersions
        <4>4. ASSUME NEW t \in Sweeps, Ends(t)
              PROVE  stored'[q] = stored[q]
          BY <1>2, <4>4, EndsSeen
        <4>5. QED
          BY <4>1, <4>2, <4>3, <4>4, NextCases
      <3>3. QED
        BY <3>1, <3>2
    <2>2. open'[q].mac = open[q].mac
      <3>1. CASE UNCHANGED vars
        BY <3>1 DEF vars
      <3>2. ASSUME NEW t \in Sweeps, Begin(t) \/ Resolve(t) \/ SelectMissing(t)
            PROVE  open'[q] = open[q]
        BY <3>2 DEF Begin, Resolve, SelectMissing
      <3>3. ASSUME NEW t \in Sweeps, Writes(t), open'[q] # open[q]
            PROVE  open'[q].mac = open[q].mac
        <4>1. t = u /\ NewVersion(u, q, open'[q]) /\ Visible(u, q) = open[q]
          BY <1>3, <3>3, WritesVersions, NoneIsNothing DEF RowFree, Visible
        <4>2. open[q] # None
          BY <1>3, NoneIsNothing DEF Sound, Locks
        <4>3. QED
          BY <4>1, <4>2 DEF NewVersion
      <3>4. ASSUME NEW t \in Sweeps, Ends(t)
            PROVE  open'[q] = open[q]
        BY <1>2, <3>4, EndsSeen
      <3>5. QED
        BY <3>1, <3>2, <3>3, <3>4, NextCases
    <2>3. OnlyBeside(u, open[q].mac, {q})
      BY <1>3, <2>1, <2>2, NoneIsNothing DEF FreshRows
    <2>4. CASE Writes(u) /\ Visible(u, r) = None
      <3>1. NewVersion(u, r, Visible(u, r)') /\ phase[u] = "resolved"
        BY <2>4, WritesSeen DEF NewVersion
      <3>2. /\ Visible(u, r)'.mac = host[u].mac
            /\ found[u] = None \/ Mismatch(host[u], seen[u])
        BY <2>4, <3>1 DEF NewVersion, Inserted
      <3>3. host[u].mac = open[q].mac /\ host[u].mac # None
        BY <2>2, <3>2
      <3>4. OnlyBeside(u, host[u].mac, {})
        BY <3>1, <3>2, <3>3 DEF Fresh
      <3>5. Visible(u, q) = open[q] /\ open[q] # None /\ open[q].by = u
        BY <1>3, <2>1, NoneIsNothing DEF Visible, Sound, Locks, Authors
      <3>6. QED
        BY <3>3, <3>4, <3>5 DEF OnlyBeside, Neighbours
    <2>5. CASE ~(Writes(u) /\ Visible(u, r) = None)
      BY <1>1, <2>1, <2>2, <2>3, <2>5, OnlyBesideKept
    <2>6. QED
      BY <2>4, <2>5
  <1>4. CASE holder[q] # u
    <2>1. Writes(u)
      <3>1. CASE UNCHANGED vars
        BY <1>4, <3>1 DEF vars
      <3>2. ASSUME NEW t \in Sweeps, Begin(t) \/ Resolve(t) \/ SelectMissing(t)
            PROVE  FALSE
        BY <1>4, <3>2 DEF Begin, Resolve, SelectMissing
      <3>3. ASSUME NEW t \in Sweeps, Writes(t)
            PROVE  t = u
        BY <1>4, <3>3, WritesVersions
      <3>4. ASSUME NEW t \in Sweeps, Ends(t)
            PROVE  FALSE
        BY <1>4, <1>2, <3>4, EndsSeen, NoneIsNothing
      <3>5. QED
        BY <3>1, <3>2, <3>3, <3>4, NextCases
    <2>2. Visible(u, q) = None
      <3>1. stored[q] = None
        BY <2>1, WritesVersions
      <3>2. QED
        BY <1>4, <3>1 DEF Visible
    <2>3. NewVersion(u, q, Visible(u, q)')
      BY <1>2, <2>1, <2>2, WritesSeen
    <2>4. /\ phase[u] = "resolved" /\ open'[q].mac = host[u].mac
          /\ found[u] = None \/ Mismatch(host[u], seen[u])
      BY <1>2, <2>2, <2>3 DEF NewVersion, Inserted
    <2>5. OnlyBeside(u, host[u].mac, {})
      BY <2>4 DEF Fresh
    <2>6. ~(Writes(u) /\ Visible(u, r) = None)
      BY <1>2, <2>1, <2>2, OneInserted
    <2>7. QED
      BY <1>1, <2>1, <2>4, <2>5, <2>6, OnlyBesideKept, WritesVersions
  <1>5. QED
    BY <1>3, <1>4

LEMMA MacStep ==
    ASSUME Sound, Neighbours, Authors, FreshRows, MacNamesOneDevice, [Next]_vars
    PROVE  MacNamesOneDevice'
  <1>1. CASE stored' = stored /\ beside' = beside
    BY <1>1 DEF MacNamesOneDevice, Stored
  <1>2. ASSUME NEW s \in Sweeps, Begin(s)
        PROVE  MacNamesOneDevice'
    <2>1. stored' = stored /\ \A u, t \in Sweeps : t \in beside[u] => t \in beside'[u]
      BY <1>2, NeighboursStep DEF Begin
    <2>2. \A r \in Stored : stored[r].by \in Sweeps
      BY DEF Stored, Sound, TypeOK, Row
    <2>3. QED
      BY <2>1, <2>2 DEF MacNamesOneDevice, Stored
  <1>3. ASSUME NEW s \in Sweeps, Ends(s)
        PROVE  MacNamesOneDevice'
    <2>1. ASSUME NEW r \in Rows, stored'[r] # None
          PROVE  /\ Visible(s, r) # None /\ Visible(s, r).by = stored'[r].by
                 /\ Visible(s, r).mac = stored'[r].mac
                 /\ \/ /\ holder[r] = s /\ stored[r] = None
                       /\ open[r].mac = stored'[r].mac /\ stored'[r].by = s
                    \/ /\ stored[r] # None /\ stored[r].by = stored'[r].by
                       /\ stored[r].mac = stored'[r].mac
      BY <1>3, <2>1, EndsSeen, NoneIsNothing DEF Visible, Sound, Locks, Authors
    <2>2. ASSUME NEW q \in Rows, NEW r \in Rows, q # r, stored'[q] # None, stored'[r] # None,
                 stored'[q].mac # None, stored'[q].mac = stored'[r].mac,
                 holder[q] = s, stored[q] = None,
                 open[q].mac = stored'[q].mac, stored'[q].by = s
          PROVE  stored'[r].by \in beside[s]
      <3>1. OnlyBeside(s, open[q].mac, {q})
        BY <2>2, NoneIsNothing DEF FreshRows
      <3>2. QED
        BY <2>1, <2>2, <3>1 DEF OnlyBeside
    <2>3. ASSUME NEW q \in Stored', NEW r \in Stored', q # r,
                 stored'[q].mac # None, stored'[q].mac = stored'[r].mac
          PROVE  stored'[q].by \in beside[stored'[r].by]
      <3>1. q \in Rows /\ r \in Rows /\ stored'[q] # None /\ stored'[r] # None
        BY <2>3 DEF Stored
      <3>2. stored'[q].by \in Sweeps /\ stored'[r].by \in Sweeps
        BY <1>3, <3>1, EndsSound DEF Sound, TypeOK, Row
      <3>3. CASE holder[q] = s /\ stored[q] = None /\ stored'[q].by = s
        <4>1. stored'[r].by \in beside[s]
          BY <2>1, <2>2, <2>3, <3>1, <3>3
        <4>2. QED
          BY <3>2, <3>3, <4>1 DEF Neighbours
      <3>4. CASE holder[r] = s /\ stored[r] = None /\ stored'[r].by = s
        BY <2>1, <2>2, <2>3, <3>1, <3>4
      <3>5. CASE stored[q] # None /\ stored[r] # None
        BY <2>1, <2>3, <3>1, <3>5 DEF MacNamesOneDevice, Stored
      <3>6. QED
        BY <2>1, <3>1, <3>3, <3>4, <3>5
    <2>4. QED
      BY <1>3, <2>3, EndsSeen DEF MacNamesOneDevice
  <1>4. ASSUME NEW s \in Sweeps, Resolve(s) \/ SelectMissing(s) \/ Writes(s)
        PROVE  stored' = stored /\ beside' = beside
    BY <1>4, WritesVersions DEF Resolve, SelectMissing
  <1>5. QED
    BY <1>1, <1>2, <1>3, <1>4, NextCases DEF vars

LEMMA NamedStep ==
    ASSUME Sound, Named, [Next]_vars
    PROVE  Named'
  BY NeighboursStep, AuthorsStep, FreshStep, FreshRowsStep, MacStep DEF Named

----------------------------------------------------------------------------
(* Addresses, without overlaps *)

LEMMA InitSeparates == Init => AloneSeparates
  BY DEF Init, AloneSeparates, OnlineAddressesDiffer, Stored, Open

LEMMA OneAlone ==
    ASSUME Neighbours, Alone, NEW s \in Open, NEW t \in Open
    PROVE  s = t
  BY DEF Neighbours, Alone, Open

LEMMA StillAlone ==
    ASSUME Sound, Neighbours, [Next]_vars, Alone'
    PROVE  Alone
  <1>1. \A s \in Sweeps : beside[s] \subseteq beside'[s]
    BY NeighboursStep DEF Sound, TypeOK
  <1>2. QED
    BY <1>1 DEF Alone

LEMMA BeginSeparates ==
    ASSUME Sound, Alone', NEW s \in Sweeps, Begin(s)
    PROVE  Open' = {s} /\ Separates(s)'
  <1>1. /\ phase' = [phase EXCEPT ![s] = "sweeping"] /\ s \notin Open
        /\ range' = [range EXCEPT ![s] = range'[s]] /\ left' = [left EXCEPT ![s] = range'[s]]
        /\ beside'[s] = Open
        /\ UNCHANGED <<stored, open, holder, host, found, seen, processed, missing>>
    BY DEF Begin, Sound, TypeOK, Open
  <1>2. Open = {} /\ Open' = {s}
    <2>1. Open = {}
      BY <1>1 DEF Alone
    <2>2. QED
      BY <1>1, <2>1 DEF Open, Sound, TypeOK
  <1>3. processed'[s] = {} /\ found'[s] = None /\ phase'[s] = "sweeping"
        /\ left'[s] \subseteq range'[s]
    BY <1>1 DEF Sound, TypeOK, Followed
  <1>4. \A r \in Rows : holder'[r] = None
    BY <1>1, <1>2 DEF Sound, Locks
  <1>5. QED
    BY <1>2, <1>3, <1>4 DEF Separates

LEMMA ResolveSeparates ==
    ASSUME Sound, NEW s \in Sweeps, Resolve(s), Separates(s)
    PROVE  Separates(s)'
  <1>1. /\ phase[s] = "sweeping" /\ phase'[s] = "resolved"
        /\ UNCHANGED <<stored, open, holder, range, processed, missing>>
    BY DEF Resolve, Sound, TypeOK
  <1>2. PICK ip \in left[s], h \in Host :
            /\ h \in Answers(ip)
            /\ left' = [left EXCEPT ![s] = @ \ {ip}]
            /\ host' = [host EXCEPT ![s] = h]
            /\ \/ /\ Match(s, h) = {}
                  /\ UNCHANGED <<found, seen>>
               \/ \E r \in Match(s, h) :
                    /\ found' = [found EXCEPT ![s] = r]
                    /\ seen' = [seen EXCEPT ![s] = Visible(s, r)]
    BY DEF Resolve, Answers
  <1>3. /\ left'[s] = left[s] \ {ip} /\ host'[s].ip = ip
        /\ left[s] \subseteq range[s] /\ found[s] = None
    BY <1>1, <1>2 DEF Answers, Sound, TypeOK, Separates
  <1>4. Answered(s)' = Answered(s)
    BY <1>1, <1>3 DEF Answered
  <1>5. \A r \in Rows : Visible(s, r)' = Visible(s, r) /\ Online(s, r)' = Online(s, r)
    BY <1>1 DEF Visible, Online
  <1>6. found'[s] # None => seen'[s] = Visible(s, found'[s])
    BY <1>2, <1>3 DEF Sound, TypeOK
  <1>7. processed[s] \subseteq Rows
    BY DEF Sound, TypeOK
  <1>8. found'[s] # None => seen'[s] = Visible(s, found[s])'
    BY <1>1, <1>6 DEF Visible
  <1>9. QED
    BY <1>1, <1>3, <1>4, <1>5, <1>7, <1>8 DEF Separates

LEMMA SelectMissingSeparates ==
    ASSUME Sound, NEW s \in Sweeps, SelectMissing(s), Separates(s)
    PROVE  Separates(s)'
  <1>1. /\ phase[s] = "sweeping" /\ phase'[s] = "missing" /\ missing'[s] = Missing(s)
        /\ UNCHANGED <<stored, open, holder, range, processed>>
    BY DEF SelectMissing, Sound, TypeOK
  <1>2. \A r \in Rows : Visible(s, r)' = Visible(s, r) /\ Online(s, r)' = Online(s, r)
    BY <1>1 DEF Visible, Online
  <1>3. processed[s] \subseteq Rows
    BY DEF Sound, TypeOK
  <1>4. \A r \in processed[s] : Online(s, r) => Visible(s, r).ip \in range[s]
    BY <1>1 DEF Separates, Answered
  <1>5. \A r \in Rows \ processed[s] :
            Online(s, r) /\ Visible(s, r).ip \in range[s] => r \in Missing(s)
    BY DEF Missing, Present, Online, InRange
  <1>6. QED
    BY <1>1, <1>2, <1>3, <1>4, <1>5 DEF Separates

\* A host that is processed adds its address to those that were answered, at one
\* row; of the others the sweep has written, each is offline.
LEMMA ProcessedSeparates ==
    ASSUME Sound, NEW s \in Sweeps, Separates(s), phase[s] = "resolved",
           NEW r \in Rows, Processed(s, r), Visible(s, r)'.ip = host[s].ip,
           \A q \in Rows \ {r} :
               \/ Visible(s, q)' = Visible(s, q) /\ holder'[q] = holder[q]
               \/ ~Visible(s, q)'.online
    PROVE  Separates(s)'
  <1>1. /\ phase'[s] = "sweeping" /\ found'[s] = None
        /\ processed'[s] = processed[s] \union {r} /\ processed[s] \subseteq Rows
        /\ UNCHANGED <<range, left>>
    BY DEF Processed, Sound, TypeOK
  <1>2. \A q \in Rows \ {r} : Online(s, q)' => /\ Visible(s, q)' = Visible(s, q)
                                              /\ holder'[q] = holder[q] /\ Online(s, q)
    BY DEF Online
  <1>3. \A q \in processed[s] :
            Online(s, q) => Visible(s, q).ip \in Answered(s) /\ Visible(s, q).ip # host[s].ip
    BY DEF Separates, Answered
  <1>4. Answered(s)' = range[s] \ left[s] /\ host[s].ip \in range[s] \ left[s]
    BY <1>1 DEF Answered, Separates
  <1>5. Answered(s) \subseteq Answered(s)'
    BY <1>4 DEF Answered
  <1>6. \A p, q \in processed'[s] :
            p # q /\ Online(s, p)' /\ Online(s, q)' => Visible(s, p)'.ip # Visible(s, q)'.ip
    BY <1>1, <1>2, <1>3 DEF Separates
  <1>7. \A q \in processed'[s] : Online(s, q)' => Visible(s, q)'.ip \in Answered(s)'
    BY <1>1, <1>2, <1>3, <1>4, <1>5
  <1>8. \A q \in Rows \ processed'[s] : Online(s, q)' => holder'[q] = None
    BY <1>1, <1>2 DEF Separates
  <1>9. left'[s] \subseteq range'[s]
    BY <1>1 DEF Separates
  <1>10. QED
    BY <1>1, <1>6, <1>7, <1>8, <1>9 DEF Separates

LEMMA WritesSeparates ==
    ASSUME Sound, Neighbours, Alone, NEW s \in Sweeps, Writes(s), Separates(s)
    PROVE  Separates(s)'
  <1>0. stored' = stored
    BY WritesVersions
  <1>1. CASE Update(s)
    <2>1. PICK f \in Rows : /\ f = found[s] /\ seen[s] = Visible(s, f) /\ host[s] \in Host
                            /\ Visible(s, f) \in Row /\ Current(s, f) = Visible(s, f)
      BY <1>1, SeenIsStored DEF Update, Sound, Followed, TypeOK, Present, Separates
    <2>2. Visible(s, f)'.ip = host[s].ip
      <3>1. Visible(s, f)' = Updated(host[s], seen[s], Current(s, f))
        BY <1>1, <2>1 DEF Update, Flush, Visible
      <3>2. QED
        BY <2>1, <3>1, UpdatedKeeps
    <2>3. \A q \in Rows \ {f} : Visible(s, q)' = Visible(s, q) /\ holder'[q] = holder[q]
      BY <1>0, <1>1, <2>1 DEF Update, Flush, Visible
    <2>4. QED
      BY <1>1, <2>1, <2>2, <2>3, ProcessedSeparates DEF Update
  <1>2. CASE Insert(s)
    <2>1. PICK new \in Rows :
            /\ Flush(s, [r \in {new} |-> Inserted(s, host[s])])
            /\ Processed(s, new)
      BY <1>2 DEF Insert
    <2>2. Visible(s, new)' = Inserted(s, host[s])
      BY <2>1 DEF Flush, Visible
    <2>3. \A q \in Rows \ {new} : Visible(s, q)' = Visible(s, q) /\ holder'[q] = holder[q]
      BY <1>0, <2>1 DEF Flush, Visible
    <2>4. Visible(s, new)'.ip = host[s].ip
      BY <2>2 DEF Inserted
    <2>5. QED
      BY <1>2, <2>1, <2>3, <2>4, ProcessedSeparates DEF Insert
  <1>3. CASE Supersede(s)
    <2>1. PICK new \in Rows :
            /\ Unused(new)
            /\ Flush(s, [r \in {found[s], new} |->
                    IF r = new THEN Inserted(s, host[s])
                               ELSE Retired(seen[s], Current(s, r))])
            /\ Processed(s, new)
      BY <1>3 DEF Supersede
    <2>2. PICK f \in Rows : /\ f = found[s] /\ seen[s] = Visible(s, f)
                            /\ Visible(s, f) \in Row /\ Visible(s, f) # None
                            /\ Current(s, f) = Visible(s, f)
      BY <1>3, SeenIsStored DEF Supersede, Sound, Followed, TypeOK, Present, Separates
    <2>3. f # new
      BY <2>1, <2>2, NoneIsNothing DEF Unused, Visible
    <2>4. Visible(s, new)'.ip = host[s].ip
      <3>1. Visible(s, new)' = Inserted(s, host[s])
        BY <2>1 DEF Flush, Visible
      <3>2. QED
        BY <3>1 DEF Inserted
    <2>5. ~Visible(s, f)'.online
      <3>1. Visible(s, f)' = Retired(seen[s], Current(s, f))
        BY <2>1, <2>2, <2>3 DEF Flush, Visible
      <3>2. QED
        BY <2>2, <3>1, RetiredKeeps
    <2>6. \A q \in Rows \ {new, f} : Visible(s, q)' = Visible(s, q) /\ holder'[q] = holder[q]
      BY <1>0, <2>1, <2>2 DEF Flush, Visible
    <2>7. QED
      BY <1>3, <2>1, <2>4, <2>5, <2>6, ProcessedSeparates DEF Supersede
  <1>4. CASE TakeOffline(s)
    <2>1. PICK r \in missing[s] :
            /\ RowFree(s, r)
            /\ Flush(s, [q \in {r} |-> [Current(s, r) EXCEPT !.online = FALSE]])
            /\ missing' = [missing EXCEPT ![s] = @ \ {r}]
      BY <1>4 DEF TakeOffline
    <2>2. /\ phase[s] = "missing" /\ UNCHANGED <<phase, range, left, host, found, processed>>
          /\ missing'[s] = missing[s] \ {r} /\ processed[s] \subseteq Rows
      BY <1>4, <2>1 DEF TakeOffline, Sound, TypeOK
    <2>3. r \in Rows /\ Current(s, r) \in Row
      BY <2>1, SeenIsStored DEF Sound, Followed, TypeOK, Present
    <2>4. ~Visible(s, r)'.online
      <3>1. Visible(s, r)' = [Current(s, r) EXCEPT !.online = FALSE]
        BY <2>1, <2>3 DEF Flush, Visible
      <3>2. QED
        BY <2>3, <3>1 DEF Row
    <2>5. \A q \in Rows \ {r} : Visible(s, q)' = Visible(s, q) /\ holder'[q] = holder[q]
      BY <1>0, <2>1 DEF Flush, Visible
    <2>6. \A q \in Rows : Online(s, q)' => /\ q # r /\ Online(s, q)
                                         /\ Visible(s, q)' = Visible(s, q)
                                         /\ holder'[q] = holder[q]
      BY <2>4, <2>5 DEF Online
    <2>7. QED
      BY <2>2, <2>6 DEF Separates
  <1>5. QED
    BY <1>1, <1>2, <1>3, <1>4 DEF Writes

\* What a sweep that was alone commits keeps the addresses apart.
LEMMA CommitSeparates ==
    ASSUME Sound, Neighbours, Alone, OnlineAddressesDiffer,
           NEW s \in Sweeps, Commit(s), Separates(s)
    PROVE  OnlineAddressesDiffer'
  <1>1. s \in Open /\ phase[s] = "missing" /\ missing[s] = {}
    BY DEF Commit, Open
  <1>2. \A r \in Rows : stored'[r] = Visible(s, r)
    BY DEF Commit, Held, Visible
  <1>3. ASSUME NEW q \in Rows, NEW r \in Rows, q # r, Online(s, q), Online(s, r)
        PROVE  Visible(s, q).ip # Visible(s, r).ip
    <2>1. CASE q \in processed[s] /\ r \in processed[s]
      BY <1>3, <2>1 DEF Separates
    <2>2. \A p \in Rows : p \in processed[s] /\ Online(s, p) => Visible(s, p).ip \in range[s]
      BY <1>1 DEF Separates
    <2>3. \A p \in Rows : p \notin processed[s] /\ Online(s, p) =>
                /\ Visible(s, p).ip \notin range[s]
                /\ Visible(s, p) = stored[p]
      <3>1. \A p \in Rows : p \notin processed[s] /\ Online(s, p) => holder[p] = None
        BY DEF Separates
      <3>2. QED
        BY <1>1, <3>1, NoneIsNothing DEF Separates, Visible
    <2>4. CASE q \notin processed[s] /\ r \notin processed[s]
      BY <1>3, <2>3, <2>4 DEF OnlineAddressesDiffer, Alone, Stored, Online
    <2>5. QED
      BY <1>3, <2>1, <2>2, <2>3, <2>4
  <1>4. QED
    BY <1>2, <1>3 DEF OnlineAddressesDiffer, Stored, Online

LEMMA SeparatesStep ==
    ASSUME Sound, Neighbours, AloneSeparates, [Next]_vars
    PROVE  AloneSeparates'
  <1> SUFFICES ASSUME Alone'
               PROVE  OnlineAddressesDiffer' /\ \A s \in Open' : Separates(s)'
    BY DEF AloneSeparates, Separates, Online, Answered, Visible, Open, Alone
  <1>1. Alone /\ OnlineAddressesDiffer /\ \A s \in Open : Separates(s)
    BY StillAlone DEF AloneSeparates
  <1>2. Open \subseteq Sweeps
    BY DEF Open
  <1>3. ASSUME stored' = stored
        PROVE  OnlineAddressesDiffer'
    BY <1>1, <1>3 DEF OnlineAddressesDiffer, Stored, Alone
  <1>4. CASE UNCHANGED vars
    <2>1. \A s \in Sweeps : Separates(s)' <=> Separates(s)
      BY <1>4 DEF vars, Separates, Online, Answered, Visible
    <2>2. Open' = Open /\ stored' = stored
      BY <1>4 DEF vars, Open
    <2>3. QED
      BY <1>1, <1>2, <1>3, <2>1, <2>2
  <1>5. ASSUME NEW s \in Sweeps, Begin(s)
        PROVE  OnlineAddressesDiffer' /\ \A t \in Open' : Separates(t)'
    <2>1. Open' = {s} /\ Separates(s)' /\ stored' = stored
      BY <1>5, BeginSeparates DEF Begin
    <2>2. QED
      BY <1>3, <2>1
  <1>6. ASSUME NEW s \in Sweeps, Resolve(s) \/ SelectMissing(s) \/ Writes(s)
        PROVE  OnlineAddressesDiffer' /\ \A t \in Open' : Separates(t)'
    <2>1. s \in Open /\ Open' = Open /\ stored' = stored
      BY <1>6, WritesVersions, WritesSweep DEF Resolve, SelectMissing, Open, Sound, TypeOK
    <2>2. Open = {s}
      BY <1>1, <2>1, OneAlone
    <2>3. Separates(s)'
      BY <1>1, <1>6, <2>1, ResolveSeparates, SelectMissingSeparates, WritesSeparates
    <2>4. QED
      BY <1>3, <2>1, <2>2, <2>3
  <1>7. ASSUME NEW s \in Sweeps, Ends(s)
        PROVE  OnlineAddressesDiffer' /\ \A t \in Open' : Separates(t)'
    <2>1. s \in Open /\ Open' = Open \ {s}
      BY <1>7, EndsSeen
    <2>2. Open' = {}
      BY <1>1, <2>1, OneAlone
    <2>3. OnlineAddressesDiffer'
      BY <1>1, <1>3, <1>7, <2>1, CommitSeparates DEF Ends, Fail
    <2>4. QED
      BY <2>2, <2>3
  <1>8. QED
    BY <1>4, <1>5, <1>6, <1>7, NextCases

----------------------------------------------------------------------------
(* Theorems *)

\* The inductive invariant holds throughout, for any sweeps, rows and addresses.
THEOREM DevicesInvariance == Spec => []IInv
  <1>1. Init => IInv
    BY InitSound, InitNamed, InitHistory, InitSeparates DEF IInv
  <1>2. IInv /\ [Next]_vars => IInv'
    BY SoundStep, NamedStep, HistoryStep, SeparatesStep DEF IInv, Named
  <1>3. QED
    BY <1>1, <1>2, PTL DEF Spec

\* However many sweeps overlap, two rows with one hardware address come from sweeps
\* that did.
THEOREM MacsAreKept == Spec => []MacNamesOneDevice
  <1>1. IInv => MacNamesOneDevice
    BY DEF IInv, Named
  <1>2. QED
    BY <1>1, DevicesInvariance, PTL

\* As long as no sweeps overlap, whatever the machines do, no two devices are online
\* at one address.
THEOREM AddressesAreApart == Spec => []OnlineAddressesDiffer
  <1>1. IInv => OnlineAddressesDiffer
    BY DEF IInv, AloneSeparates, Alone, OnlineAddressesDiffer
  <1>2. QED
    BY <1>1, DevicesInvariance, PTL

\* The newest entry of a device's address history is its address, also when each of
\* two sweeps writes from what it has read.
THEOREM HistoryFollows == Spec => []IpHistoryIsCurrent
  <1>1. IInv => IpHistoryIsCurrent
    BY DEF IInv, HistoryKept, IpHistoryIsCurrent, Stored
  <1>2. QED
    BY <1>1, DevicesInvariance, PTL

----------------------------------------------------------------------------
(***************************************************************************)
(* What the row of one device says: Inventory, for any hosts, credentials, *)
(* software lists and number of sweeps.  A sweep decides from a row it has *)
(* read before: the argument says what may have become of the row since,   *)
(* as long as only one sweep has it in hand.  The software history is      *)
(* independent of all that: it is compared and replaced in one step.       *)
(***************************************************************************)

CONSTANTS Hosts, SoftwareLists, Credentials, Local

VARIABLES openPorts, authenticated, looked, stage, believed, toTry, reading

\* Inventory, for the row of the device that DeviceRecord describes.
Device == INSTANCE Inventory

LookedIsFunction == looked = [s \in Sweeps |-> looked[s]]

\* What a sweep has in hand is proven if it is confirmed, and the row differs from
\* the one it read only in a type a collection has proven.
InHand(s) ==
    /\ looked[s].found.confidence = "confirmed" => looked[s].found.type \in proven
    /\ looked[s].read.confidence = confidence
    /\ type = looked[s].read.type \/ type \in proven

OneInHand == \A s, t \in Sweeps : looked[s] # None /\ looked[t] # None => s = t

\* What a collection has read, the device has said.
ReadIsProven == stage = "read" => reading.os \in proven \union {"none"}

Identities ==
    /\ LookedIsFunction
    /\ ReadIsProven
    /\ ~crossed =>
        /\ OneInHand
        /\ \A s \in Sweeps : looked[s] # None => InHand(s)
        /\ confidence = "confirmed" => type \in proven

Software ==
    /\ reported \in [Names -> Versions \union {NoVersion}]
    /\ \A n \in twofold : VersionsIn(installed, n) # {}
    /\ HistoryReplays

----------------------------------------------------------------------------
(* Identification                                                          *)

\* "Never returns CONFIRMED from a name/port/vendor heuristic alone".
LEMMA ConfirmedIsReported ==
    ASSUME NEW mode, NEW h, NEW f \in Device!Found(mode, h), f.confidence = "confirmed"
    PROVE  f.type \in Device!Reported(mode, h)
  <1>1. /\ f.type = Device!Identification(mode, h).type
        /\ f.confidence = Device!Identification(mode, h).confidence
    BY DEF Device!Found
  <1>2. mode # "quick"
    BY <1>1 DEF Device!Identification, Device!Identified
  <1>3. Device!Identification(mode, h) = Device!Identify(h)
    BY <1>2 DEF Device!Identification
  <1>4. CASE 161 \in h.ports /\ h.snmp
    <2>1. Device!Identify(h).type \in {"switch", "router"}
      BY <1>4 DEF Device!Identify, Device!Identified
    <2>2. QED
      BY <1>1, <1>2, <1>3, <1>4, <2>1 DEF Device!Reported
  <1>5. CASE /\ ~(161 \in h.ports /\ h.snmp)
             /\ h.ports \intersect {5985, 5986} # {} /\ "winrm" \in Credentials /\ h.winrm
    <2>1. Device!Identify(h).type = "windows"
      BY <1>5 DEF Device!Identify, Device!Identified
    <2>2. QED
      BY <1>1, <1>2, <1>3, <1>5, <2>1 DEF Device!Reported
  <1>6. CASE /\ ~(161 \in h.ports /\ h.snmp)
             /\ ~(h.ports \intersect {5985, 5986} # {} /\ "winrm" \in Credentials /\ h.winrm)
    <2>1. Device!Identify(h) =
            IF 22 \in h.ports /\ h.banner = "cisco"
            THEN Device!Identified("router", "confirmed")
            ELSE IF Device!Classify(h) # "unknown"
            THEN Device!Identified(Device!Classify(h), "unverified")
            ELSE IF 22 \in h.ports /\ h.banner = "openssh"
            THEN Device!Identified("linux", "unverified")
            ELSE IF 445 \in h.ports THEN Device!Identified("windows", "unverified")
            ELSE Device!Identified("unknown", "unknown")
      BY <1>6 DEF Device!Identify
    <2>2. h.banner = "cisco" /\ Device!Identify(h).type = "router"
      BY <1>1, <1>3, <2>1 DEF Device!Identified
    <2>3. QED
      BY <1>1, <1>2, <1>3, <2>2 DEF Device!Reported
  <1>7. QED
    BY <1>4, <1>5, <1>6

----------------------------------------------------------------------------
(* Sweeps and collections                                                  *)

LEMMA InitIdentities == Device!Init => Identities
  <1> SUFFICES ASSUME Device!Init PROVE Identities
    OBVIOUS
  <1>1. confidence = "confirmed" => type \in proven
    BY ConfirmedIsReported DEF Device!Init
  <1>2. looked = [s \in Sweeps |-> None] /\ stage = "none"
    BY DEF Device!Init
  <1>3. QED
    BY <1>1, <1>2 DEF Identities, LookedIsFunction, ReadIsProven, OneInHand

LEMMA SweepStep ==
    ASSUME Identities, NEW s \in Sweeps,
           Device!SweepLook(s) \/ Device!SweepWrite(s) \/ Device!SweepFails(s)
    PROVE  Identities'
  <1> USE DEF Device!device, Device!software, Device!collecting
  <1>1. CASE Device!SweepLook(s)
    <2>1. PICK h \in Hosts, mode \in Device!Modes : \E f \in Device!Found(mode, h) :
            /\ looked' = [looked EXCEPT ![s] = [found |-> f, read |-> Device!ReadRow]]
            /\ proven' = proven \union Device!Reported(mode, h)
      BY <1>1 DEF Device!SweepLook
    <2>2. PICK f \in Device!Found(mode, h) :
            /\ looked' = [looked EXCEPT ![s] = [found |-> f, read |-> Device!ReadRow]]
            /\ proven' = proven \union Device!Reported(mode, h)
      BY <2>1
    <2>3. /\ UNCHANGED <<type, confidence, stage, reading>>
          /\ crossed' = (crossed \/ \E t \in Sweeps \ {s} : looked[t] # None)
      BY <1>1 DEF Device!SweepLook
    <2>4. /\ LookedIsFunction' /\ looked'[s] = [found |-> f, read |-> Device!ReadRow]
          /\ \A t \in Sweeps \ {s} : looked'[t] = looked[t]
      BY <2>2 DEF Identities, LookedIsFunction
    <2>5. ReadIsProven'
      BY <2>2, <2>3 DEF Identities, ReadIsProven
    <2>6. ASSUME ~crossed'
          PROVE  /\ OneInHand'
                 /\ \A t \in Sweeps : looked'[t] # None => InHand(t)'
                 /\ confidence' = "confirmed" => type' \in proven'
      <3>1. ~crossed /\ \A t \in Sweeps \ {s} : looked'[t] = None
        BY <2>3, <2>4, <2>6
      <3>2. InHand(s)'
        BY <2>2, <2>3, <2>4, ConfirmedIsReported DEF InHand, Device!ReadRow
      <3>3. confidence' = "confirmed" => type' \in proven'
        BY <2>2, <2>3, <3>1 DEF Identities
      <3>4. QED
        BY <3>1, <3>2, <3>3 DEF OneInHand
    <2>7. QED
      BY <2>4, <2>5, <2>6 DEF Identities
  <1>2. CASE Device!SweepWrite(s)
    <2> DEFINE met == looked[s].found
               read == looked[s].read
    <2>1. /\ looked[s] # None
          /\ IF met.type # "unknown"
             THEN type' = Device!Written(read.type, met.type, type)
                  /\ confidence' = Device!Written(read.confidence, met.confidence, confidence)
             ELSE UNCHANGED <<type, confidence>>
          /\ looked' = [looked EXCEPT ![s] = None]
          /\ UNCHANGED <<proven, crossed, stage, reading>>
      BY <1>2 DEF Device!SweepWrite, Device!Believed
    <2>2. /\ LookedIsFunction' /\ looked'[s] = None
          /\ \A t \in Sweeps \ {s} : looked'[t] = looked[t]
      BY <2>1 DEF Identities, LookedIsFunction
    <2>3. ReadIsProven'
      BY <2>1 DEF Identities, ReadIsProven
    <2>4. ASSUME ~crossed'
          PROVE  /\ \A t \in Sweeps : looked'[t] = None
                 /\ confidence' = "confirmed" => type' \in proven'
      <3>1. \A t \in Sweeps : looked'[t] = None
        BY <2>1, <2>2, <2>4 DEF Identities, OneInHand
      <3>2. InHand(s) /\ (confidence = "confirmed" => type \in proven)
        BY <2>1, <2>4 DEF Identities
      <3>3. confidence' = "confirmed" => type' \in proven'
        BY <2>1, <3>2 DEF InHand, Device!Written
      <3>4. QED
        BY <3>1, <3>3
    <2>5. QED
      BY <2>2, <2>3, <2>4 DEF Identities, OneInHand
  <1>3. CASE Device!SweepFails(s)
    <2>1. /\ looked' = [looked EXCEPT ![s] = None]
          /\ UNCHANGED <<type, confidence, proven, crossed, stage, reading>>
      BY <1>3 DEF Device!SweepFails
    <2>2. /\ LookedIsFunction' /\ looked'[s] = None
          /\ \A t \in Sweeps \ {s} : looked'[t] = looked[t]
      BY <2>1 DEF Identities, LookedIsFunction
    <2>3. \A t \in Sweeps : looked'[t] # None => looked'[t] = looked[t]
      BY <2>2
    <2>4. QED
      BY <2>1, <2>2, <2>3 DEF Identities, ReadIsProven, OneInHand, InHand
  <1>4. QED
    BY <1>1, <1>2, <1>3

LEMMA CollectionStep ==
    ASSUME Identities,
           \/ Device!CollectLook \/ Device!CollectBegin \/ Device!CollectWithoutAddress
           \/ Device!Attempt
           \/ Device!CollectFails \/ Device!CollectAborts
           \/ Device!CollectSave
    PROVE  Identities'
  <1> USE DEF Device!device, Device!software, Device!sweeping
  <1>1. ASSUME UNCHANGED <<looked, crossed, confidence>>, proven \subseteq proven',
               type' = type \/ type' \in proven, ReadIsProven'
        PROVE  Identities'
    BY <1>1 DEF Identities, LookedIsFunction, OneInHand, InHand
  <1>2. CASE Device!CollectLook \/ Device!CollectBegin
    BY <1>1, <1>2 DEF Device!CollectLook, Device!CollectBegin, ReadIsProven
  <1>3. CASE \/ Device!CollectWithoutAddress \/ Device!CollectFails
             \/ Device!CollectAborts
    BY <1>1, <1>3
    DEF Device!CollectWithoutAddress, Device!CollectFails, Device!CollectAborts,
        Device!CollectionOver, ReadIsProven
  <1>4. CASE Device!Attempt
    <2>1. \/ \E read \in Device!Readings(Head(toTry)) :
                /\ reading' = read /\ proven' = proven \union ({read.os} \ {"none"})
          \/ stage = "trying" /\ UNCHANGED <<stage, proven>>
      BY <1>4 DEF Device!Attempt
    <2>2. ReadIsProven' /\ proven \subseteq proven'
      BY <2>1 DEF ReadIsProven
    <2>3. UNCHANGED <<looked, crossed, confidence, type>>
      BY <1>4 DEF Device!Attempt
    <2>4. QED
      BY <1>1, <2>2, <2>3
  <1>5. CASE Device!CollectSave
    <2>1. /\ stage = "read" /\ stage' = "none"
          /\ type' = IF reading.os = "none" THEN type
                     ELSE Device!Written(believed, reading.os, type)
          /\ UNCHANGED <<looked, crossed, confidence, proven>>
      BY <1>5 DEF Device!CollectSave, Device!CollectionOver
    <2>2. type' = type \/ type' \in proven
      BY <2>1 DEF Identities, ReadIsProven, Device!Written
    <2>3. QED
      BY <1>1, <2>1, <2>2 DEF ReadIsProven
  <1>6. QED
    BY <1>2, <1>3, <1>4, <1>5

LEMMA IdentitiesStep == Identities /\ [Device!Next]_Device!vars => Identities'
  <1> SUFFICES ASSUME Identities, [Device!Next]_Device!vars PROVE Identities'
    OBVIOUS
  <1>1. CASE UNCHANGED Device!vars
    BY <1>1 DEF Device!vars, Identities, LookedIsFunction, ReadIsProven, OneInHand, InHand
  <1>2. QED
    BY <1>1, SweepStep, CollectionStep DEF Device!Next

----------------------------------------------------------------------------
(* The software history                                                    *)

\* An instance of a module has its own names for what that module extends.
LEMMA SameVersionsIn == \A list, n : Device!VersionsIn(list, n) = VersionsIn(list, n)
  BY DEF Device!VersionsIn, VersionsIn

LEMMA SameCardinality == \A S : Device!Cardinality(S) = Cardinality(S)
  BY DEF Device!Cardinality, Cardinality

LEMMA InitSoftware == Device!Init => Software
  BY DEF Device!Init, Software, HistoryReplays, VersionsIn

\* The history of a name follows the list that replaces the one before.
LEMMA HistoryEndsWithList ==
    ASSUME Software, NEW list, Device!ReplaceSoftware(list),
           NEW n \in Names, n \notin twofold'
    PROVE  VersionsIn(installed', n) = IF reported'[n] = NoVersion THEN {} ELSE {reported'[n]}
  <1> DEFINE old == VersionsIn(installed, n)
             new == VersionsIn(list, n)
  <1>1. /\ installed' = list
        /\ reported' \in [Names -> Versions \union {NoVersion}]
        /\ reported'[n] \in Device!Entries(old, new, reported[n])
        /\ new = {} \/ n \notin twofold
        /\ ~(Cardinality(new) > 1)
    BY SameCardinality, SameVersionsIn DEF Device!ReplaceSoftware
  <1>2. NoVersion \notin new /\ IsFiniteSet(new)
    BY NoVersionIsNone, FinitelyManyVersions, FS_Subset DEF VersionsIn
  <1>3. n \notin twofold => old = IF reported[n] = NoVersion THEN {} ELSE {reported[n]}
    BY DEF Software, HistoryReplays
  <1>4. CASE new = {}
    <2>1. old = {} => n \notin twofold
      BY DEF Software
    <2>2. reported'[n] = NoVersion
      BY <1>1, <1>3, <1>4, <2>1 DEF Device!Entries
    <2>3. QED
      BY <1>1, <1>4, <2>2
  <1>5. CASE new # {}
    <2>1. PICK v : new = {v} /\ v # NoVersion
      <3>1. PICK v : v \in new
        BY <1>5
      <3>2. Cardinality({v}) = 1 /\ Cardinality(new) \in Nat
        BY <1>2, FS_Singleton, FS_CardinalityType
      <3>3. Cardinality(new) = Cardinality({v})
        BY <1>1, <1>2, <3>1, <3>2, FS_Subset
      <3>4. new = {v}
        BY <1>2, <3>1, <3>3, FS_Subset
      <3>5. QED
        BY <1>2, <3>1, <3>4
    <2>2. reported'[n] = v
      BY <1>1, <1>3, <1>5, <2>1 DEF Device!Entries
    <2>3. QED
      BY <1>1, <2>1, <2>2
  <1>6. QED
    BY <1>4, <1>5

LEMMA SoftwareStep == Software /\ [Device!Next]_Device!vars => Software'
  <1> SUFFICES ASSUME Software, [Device!Next]_Device!vars PROVE Software'
    OBVIOUS
  <1>1. CASE UNCHANGED Device!software
    BY <1>1 DEF Device!software, Software, HistoryReplays, VersionsIn
  <1>2. CASE Device!CollectSave
    <2>1. PICK list \in reading.lists : Device!ReplaceSoftware(list)
      BY <1>2 DEF Device!CollectSave
    <2>2. reported' \in [Names -> Versions \union {NoVersion}]
      BY <2>1 DEF Device!ReplaceSoftware
    <2>3. ASSUME NEW n \in twofold' PROVE VersionsIn(installed', n) # {}
      <3>1. VersionsIn(list, n) # {} \/ Cardinality(VersionsIn(list, n)) > 1
        BY <2>1, <2>3, SameCardinality, SameVersionsIn DEF Device!ReplaceSoftware
      <3>2. Cardinality({}) = 0
        BY FS_EmptySet
      <3>3. QED
        BY <2>1, <3>1, <3>2 DEF Device!ReplaceSoftware
    <2>4. HistoryReplays'
      BY <2>1, HistoryEndsWithList DEF HistoryReplays, VersionsIn
    <2>5. QED
      BY <2>2, <2>3, <2>4 DEF Software, VersionsIn
  <1>3. UNCHANGED Device!software \/ Device!CollectSave
    BY DEF Device!Next, Device!vars, Device!software, Device!SweepLook, Device!SweepWrite,
           Device!SweepFails, Device!CollectLook, Device!CollectBegin,
           Device!CollectWithoutAddress, Device!Attempt, Device!CollectFails,
           Device!CollectAborts
  <1>4. QED
    BY <1>1, <1>2, <1>3

----------------------------------------------------------------------------
(* Theorems                                                                *)

\* A confirmed type is one the device has reported itself, unless two sweeps had
\* the device in hand at once.
THEOREM ConfirmedTypesAreProven == Device!Spec => []ConfirmedIsProven
  <1>1. Device!Spec => []Identities
    BY InitIdentities, IdentitiesStep, PTL DEF Device!Spec
  <1>2. Identities => ConfirmedIsProven
    BY DEF Identities, ConfirmedIsProven
  <1>3. QED
    BY <1>1, <1>2, PTL

\* The software history ends with what is installed, for every name that was not
\* found in two versions at once.
THEOREM SoftwareHistoryReplays == Device!Spec => []HistoryReplays
  <1>1. Device!Spec => []Software
    BY InitSoftware, SoftwareStep, PTL DEF Device!Spec
  <1>2. Software => HistoryReplays
    BY DEF Software
  <1>3. QED
    BY <1>1, <1>2, PTL
=============================================================================
