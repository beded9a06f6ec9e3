--------------------------- MODULE MCNdmpMessages ---------------------------
(***************************************************************************)
(* Instances of NdmpMessages for TLC: the hosts, and the scale of the      *)
(* limits.  4 stands for 2^32, and two devices for the seven or so that a  *)
(* reply of 2048 bytes can describe; the arrays have room for one more,    *)
(* where those of the code have room for 32.                               *)
(***************************************************************************)
EXTENDS NdmpMessages, TLC

Disk == [host |-> "scsi0", vendor |-> <<"ATA">>, model |-> <<"VBOX", "HARDDISK">>,
         rev |-> <<"1.0">>, type |-> <<"Direct-Access">>, ansi |-> <<"05">>]
Tape == [host |-> "scsi1", vendor |-> <<"HP">>, model |-> <<"Ultrium">>,
         rev |-> <<>>, type |-> <<"Sequential-Access">>, ansi |-> <<"06", "CCS">>]
NoVendor == [Disk EXCEPT !.vendor = <<>>, !.host = "scsi2"]
Changer == [Tape EXCEPT !.type = <<"Medium", "Changer">>]

Sound == [nameFits |-> TRUE, statvfs |-> TRUE, size |-> 3, free |-> 1,
          procScsi |-> TRUE, devices |-> <<Disk>>]

\* A host in order, and one for each fact that may be out of order.
MCHosts ==
    {Sound} \cup {[Sound EXCEPT !.devices = list] :
                     list \in {<<Tape, NoVendor>>, <<Disk, Tape, NoVendor>>, <<>>}}
    \cup {[Sound EXCEPT !.nameFits = FALSE], [Sound EXCEPT !.statvfs = FALSE],
          [Sound EXCEPT !.procScsi = FALSE], [Sound EXCEPT !.size = 5, !.free = 0]}

\* A host with a tape library.
ChangerHost == {[Sound EXCEPT !.devices = <<Tape, Changer>>]}

Symmetry == Permutations(Sessions)
=============================================================================
