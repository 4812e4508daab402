---------------------------- MODULE MCInventory ----------------------------
EXTENDS Inventory, TLC

CONSTANTS editor, v1, v2

H(ports, snmp, winrm, banner, hints) ==
    [ports |-> ports, snmp |-> snmp, winrm |-> winrm, banner |-> banner, hints |-> hints]

\* A switch that speaks SNMP, a Linux and a Windows machine, of which the second
\* answers WinRM, and silence.
MCHosts ==
    {H({23, 161}, TRUE, FALSE, "none", {}),
     H({22}, FALSE, FALSE, "openssh", {}),
     H({445, 5985}, FALSE, TRUE, "none", {}),
     H({}, FALSE, FALSE, "none", {})}

MCLists ==
    {{}, {<<editor, v1>>}, {<<editor, v2>>}, {<<editor, v1>>, <<editor, v2>>}}
=============================================================================
