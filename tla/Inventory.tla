----------------------------- MODULE Inventory -----------------------------
(***************************************************************************)
(* What the Copilot believes about one device: how sweeps identify it      *)
(* (identify_device, classify_device), which credentials a collection      *)
(* tries (run_inventory_collection), what each protocol can report, and    *)
(* what of it ends in the device row, the software table and its history.  *)
(* A sweep reads the row when it has looked at the device, and writes what *)
(* differs from what it read once the row is free; a collection holds the  *)
(* row from its first flush to its commit (OneCollectorPerDevice).         *)
(*                                                                         *)
(* Modelled from apps/api/app/modules/discovery/service.py.                *)
(***************************************************************************)
EXTENDS DeviceRecord, Integers, Sequences, SequencesExt

CONSTANTS
    Hosts,          \* what may stand at the address: see Host
    SoftwareLists,  \* what a login may find installed: sets of <<name, version>>
    Credentials,    \* kinds of the organization's credentials
    Sweeps,         \* sweeps of its network
    Local,          \* the device is the machine the worker runs on
    None

ASSUME ListsOfSoftware == SoftwareLists \subseteq SUBSET (Names \X Versions)

Kinds == {"winrm", "ssh", "snmp"}

ASSUME CredentialKinds == Credentials \subseteq Kinds /\ Local \in BOOLEAN

Modes == {"quick", "standard", "full"}

\* The order in which classify_device tests for a type.
ClassifierOrder ==
    <<"proxmox", "vmware_esxi", "hyper-v", "kubernetes_node", "docker_host",
      "virtual_machine", "printer", "nas", "access_point", "ip_camera", "iot",
      "firewall", "router", "switch", "windows", "linux", "macos">>

DeviceTypes == Range(ClassifierOrder) \union {"unknown"}

Confidences == {"confirmed", "unverified", "unknown"}

Ports == {22, 23, 161, 445, 5985, 5986, 9100}

\* A host as a sweep meets it: its open ports, whether SNMP and WinRM answer,
\* the first line of its SSH server, and the types its name, vendor and system
\* hint at.
Host == [ports : SUBSET Ports, snmp : BOOLEAN, winrm : BOOLEAN,
         banner : {"none", "cisco", "openssh"}, hints : SUBSET DeviceTypes]

ASSUME HostsAreHosts == Hosts \subseteq Host

VARIABLES
    openPorts,          \* devices.open_ports
    authenticated,      \* auth_success
    looked,             \* looked[s]: what sweep s has found, and the row it read
    stage,              \* the collection: "none", "looked", "trying", "read"
    believed,           \* the type it read
    toTry,              \* credentials it has not tried yet
    reading             \* what it has read

vars == <<type, confidence, openPorts, authenticated, installed, reported,
          looked, stage, believed, toTry, reading, proven, crossed,
          twofold>>

device == <<type, confidence, openPorts>>
software == <<installed, reported, twofold>>
sweeping == <<looked, crossed>>
collecting == <<stage, believed, toTry, reading>>

Row == [type : DeviceTypes, confidence : Confidences, ports : SUBSET Ports]

\* The row as a session reads it now.
ReadRow == [type |-> type, confidence |-> confidence, ports |-> openPorts]

Reading == [os : {"windows", "linux", "none"}, lists : {SoftwareLists, {{}}}]

TypeOK ==
    /\ type \in DeviceTypes
    /\ confidence \in Confidences
    /\ openPorts \subseteq Ports
    /\ authenticated \in BOOLEAN /\ crossed \in BOOLEAN
    /\ installed \subseteq Names \X Versions
    /\ reported \in [Names -> Versions \union {NoVersion}]
    /\ looked \in [Sweeps -> [found : Row, read : Row] \union {None}]
    /\ stage \in {"none", "looked", "trying", "read"}
    /\ believed \in DeviceTypes \union {None}
    /\ toTry \in Seq(Kinds)
    /\ reading \in Reading \union {None}
    /\ proven \subseteq DeviceTypes
    /\ twofold \subseteq Names

----------------------------------------------------------------------------
(* Identification *)

\* classify_device: what an open port alone is taken for.
PortHints(ports) ==
    {t \in DeviceTypes : \/ t = "printer" /\ 9100 \in ports
                         \/ t = "windows" /\ 5985 \in ports
                         \/ t = "linux" /\ 22 \in ports}

\* The first type of the order that anything hints at.
Classify(h) ==
    LET hints == h.hints \union PortHints(h.ports)
        fits  == SelectSeq(ClassifierOrder, LAMBDA t : t \in hints)
    IN IF fits = <<>> THEN "unknown" ELSE Head(fits)

Identified(t, c) == [type |-> t, confidence |-> c]

\* Variant: a matching name is taken for an answer.
Identify_Trusting(h) ==
    IF Classify(h) # "unknown" THEN Identified(Classify(h), "confirmed")
                               ELSE Identified("unknown", "unknown")

\* identify_device: the answers that prove a type come first.
Identify(h) ==
    CASE 161 \in h.ports /\ h.snmp ->
            Identified(IF 23 \in h.ports THEN "switch" ELSE "router", "confirmed")
      [] ~(161 \in h.ports /\ h.snmp)
         /\ h.ports \intersect {5985, 5986} # {} /\ "winrm" \in Credentials /\ h.winrm ->
            Identified("windows", "confirmed")
      [] OTHER ->
            IF 22 \in h.ports /\ h.banner = "cisco"
            THEN Identified("router", "confirmed")
            ELSE IF Classify(h) # "unknown" THEN Identified(Classify(h), "unverified")
            ELSE IF 22 \in h.ports /\ h.banner = "openssh" THEN Identified("linux", "unverified")
            ELSE IF 445 \in h.ports THEN Identified("windows", "unverified")
            ELSE Identified("unknown", "unknown")

\* A quick scan identifies nothing.
Identification(mode, h) ==
    IF mode = "quick" THEN Identified("unknown", "unknown") ELSE Identify(h)

----------------------------------------------------------------------------
(* Sweeps *)

\* The types the device itself names when it is asked.
Reported(mode, h) ==
    IF mode = "quick" THEN {}
    ELSE (IF h.snmp THEN {"switch", "router"} ELSE {})
           \union (IF h.winrm THEN {"windows"} ELSE {})
           \union (IF h.banner = "cisco" THEN {"router"} ELSE {})

\* The ports a sweep reports: nmap does not look at any in a quick scan, the
\* manual sweep always does.
PortsSeen(mode, h) == IF mode = "quick" THEN {{}, h.ports} ELSE {h.ports}

\* The row a sweep makes of a host.
Found(mode, h) ==
    {[type |-> Identification(mode, h).type,
      confidence |-> Identification(mode, h).confidence, ports |-> p] :
        p \in PortsSeen(mode, h)}

\* The first sweep that met the device has inserted its row.
Init ==
    /\ \E h \in Hosts, mode \in Modes :
        /\ \E f \in Found(mode, h) :
            type = f.type /\ confidence = f.confidence /\ openPorts = f.ports
        /\ proven = Reported(mode, h)
    /\ authenticated = FALSE
    /\ installed = {}
    /\ reported = [n \in Names |-> NoVersion]
    /\ looked = [s \in Sweeps |-> None]
    /\ stage = "none"
    /\ believed = None
    /\ toTry = <<>>
    /\ reading = None
    /\ crossed = FALSE
    /\ twofold = {}

\* A sweep identifies the device and reads its row.
SweepLook(s) ==
    /\ looked[s] = None
    /\ \E h \in Hosts, mode \in Modes :
        /\ \E f \in Found(mode, h) :
            looked' = [looked EXCEPT ![s] = [found |-> f, read |-> ReadRow]]
        /\ proven' = proven \union Reported(mode, h)
    /\ crossed' = (crossed \/ \E t \in Sweeps \ {s} : looked[t] # None)
    /\ UNCHANGED <<device, software, authenticated, collecting>>

\* A column is written when it differs from what the session read.
Written(read, new, stored) == IF new = read THEN stored ELSE new

\* Variant: a confirmed device keeps its confidence.
Believed_Sticky(found, read) ==
    IF read.confidence = "confirmed" THEN confidence
    ELSE Written(read.confidence, found.confidence, confidence)

\* The confidence a sweep leaves: its own, also below the one it found.
Believed(found, read) == Written(read.confidence, found.confidence, confidence)

\* The row is free, and the sweep updates it.  What it could not identify is left
\* as it was; the port list is replaced, even by an empty one.
SweepWrite(s) ==
    /\ looked[s] # None
    /\ stage \in {"none", "looked"}
    /\ LET found == looked[s].found
           read  == looked[s].read
       IN /\ IF found.type # "unknown"
             THEN /\ type' = Written(read.type, found.type, type)
                  /\ confidence' = Believed(found, read)
             ELSE UNCHANGED <<type, confidence>>
          /\ openPorts' = Written(read.ports, found.ports, openPorts)
    /\ looked' = [looked EXCEPT ![s] = None]
    /\ UNCHANGED <<software, authenticated, proven, crossed, collecting>>

\* The sweep fails before its transaction ends, or its worker dies.
SweepFails(s) ==
    /\ looked[s] # None
    /\ looked' = [looked EXCEPT ![s] = None]
    /\ UNCHANGED <<device, software, authenticated, proven, crossed,
                   collecting>>

----------------------------------------------------------------------------
(* Collections *)

\* Only the kinds of credentials given, in the order given.
Having(kinds, creds) == SelectSeq(kinds, LAMBDA k : k \in creds)

\* The order of the usable credentials follows what the device is taken for, and
\* whether the organization has any for SSH, usable or not.
CredentialOrder(creds) ==
    IF type = "windows" \/ openPorts \intersect {5985, 5986} # {}
    THEN Having(<<"winrm", "ssh", "snmp">>, creds)
    ELSE IF \/ type \in {"linux", "macos", "virtual_machine", "docker_host"}
            \/ 22 \in openPorts
            \/ "ssh" \in Credentials
    THEN Having(<<"ssh", "winrm", "snmp">>, creds)
    ELSE Having(<<"snmp", "ssh", "winrm">>, creds)

\* Without a usable secret the machine itself is read through a shell, any other
\* device with the public community.
ToTry(creds) ==
    IF creds # {} THEN CredentialOrder(creds)
    ELSE IF Local THEN <<"ssh">> ELSE <<"snmp">>

\* The device is read, and which credentials are usable: a secret that cannot be
\* decrypted is left out.
CollectLook ==
    /\ stage = "none"
    /\ stage' = "looked"
    /\ believed' = type
    /\ \E usable \in SUBSET Credentials : toTry' = ToTry(usable)
    /\ UNCHANGED <<device, software, authenticated, proven, sweeping,
                   reading>>

\* Its row is locked.
CollectBegin ==
    /\ stage = "looked"
    /\ stage' = "trying"
    /\ UNCHANGED <<device, software, authenticated, proven, sweeping,
                   believed, toTry, reading>>

CollectionOver ==
    /\ stage' = "none"
    /\ believed' = None
    /\ toTry' = <<>>
    /\ reading' = None

\* A device that has been superseded has no address to connect to.
CollectWithoutAddress ==
    /\ stage = "looked"
    /\ authenticated' = FALSE
    /\ CollectionOver
    /\ UNCHANGED <<device, software, proven, sweeping>>

\* What a login or a query brings: the system the device says it runs, and what
\* software it may list.
Read(os, lists) == [os |-> os, lists |-> lists]

\* parse_windows_inventory
WindowsReadings == {Read(os, SoftwareLists) : os \in {"windows", "none"}}

\* parse_linux_inventory: not every distribution is recognized by its name.
LinuxReadings == {Read(os, SoftwareLists) : os \in {"linux", "none"}}

\* collect_network_device_inventory: the system description may name any system,
\* and no software is listed.  The reading of a device that does not answer at all
\* is the same as that of a system nobody recognizes, and is stored like it.
NetworkReadings == {Read(os, {{}}) : os \in {"windows", "linux", "none"}}

Readings(kind) ==
    CASE kind = "winrm" -> WindowsReadings
      [] kind = "ssh"   -> LinuxReadings
      [] kind = "snmp"  -> NetworkReadings

\* The next credential is tried: it reads something, or it raises or reads
\* nothing and the one after it is tried.
Attempt ==
    /\ stage = "trying" /\ toTry # <<>>
    /\ \/ \E read \in Readings(Head(toTry)) :
            /\ reading' = read
            /\ stage' = "read"
            /\ toTry' = <<>>
            /\ proven' = proven \union ({read.os} \ {"none"})
       \/ /\ Head(toTry) # "snmp"
          /\ toTry' = Tail(toTry)
          /\ UNCHANGED <<reading, stage, proven>>
    /\ UNCHANGED <<device, software, authenticated, sweeping, believed>>

\* None of them read anything.
CollectFails ==
    /\ stage = "trying" /\ toTry = <<>>
    /\ authenticated' = FALSE
    /\ CollectionOver
    /\ UNCHANGED <<device, software, proven, sweeping>>

\* An error, or the death of the process: rolled back.  No failure is recorded; the
\* worker tries again with a collection of its own, the API's event loop does not.
CollectAborts ==
    /\ stage # "none"
    /\ CollectionOver
    /\ UNCHANGED <<device, software, authenticated, proven, sweeping>>

\* Variant: an empty list is not compared.
Entries_SkipEmpty(old, new, last) ==
    IF new = {} THEN {last}
    ELSE IF old = {} THEN new
    ELSE LET upgrades == UNION {new \ {known} : known \in old}
         IN IF upgrades = {} THEN {last} ELSE upgrades

\* What the history of a name may end with after a list is compared with the one
\* before.  Of two installed versions only one is remembered, and which one is
\* the database's choice.
Entries(old, new, last) ==
    IF new = {} THEN IF old = {} THEN {last} ELSE {NoVersion}
    ELSE IF old = {} THEN new
    ELSE UNION {IF new = {known} THEN {last} ELSE new \ {known} : known \in old}

\* The software of the device is replaced by the list that was read.
ReplaceSoftware(list) ==
    LET old(n) == VersionsIn(installed, n)
        new(n) == VersionsIn(list, n)
    IN /\ installed' = list
       /\ reported' \in {f \in [Names -> Versions \union {NoVersion}] :
                            \A n \in Names : f[n] \in Entries(old(n), new(n), reported[n])}
       /\ twofold' = {n \in twofold : new(n) # {}}
                       \union {n \in Names : Cardinality(new(n)) > 1}

\* What was read is stored.  The type is that of the system it runs.
CollectSave ==
    /\ stage = "read"
    /\ authenticated' = TRUE
    /\ type' = IF reading.os = "none" THEN type
               ELSE Written(believed, reading.os, type)
    /\ \E list \in reading.lists : ReplaceSoftware(list)
    /\ CollectionOver
    /\ UNCHANGED <<confidence, openPorts, proven, sweeping>>

Next ==
    \/ \E s \in Sweeps : SweepLook(s) \/ SweepWrite(s) \/ SweepFails(s)
    \/ CollectLook \/ CollectBegin \/ CollectWithoutAddress
    \/ Attempt
    \/ CollectFails \/ CollectAborts
    \/ CollectSave

Spec == Init /\ [][Next]_vars
=============================================================================
