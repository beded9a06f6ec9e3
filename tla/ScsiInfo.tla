------------------------------ MODULE ScsiInfo ------------------------------
(***************************************************************************)
(* The parser of /proc/scsi/scsi: get_scsi_info, get_name and get_value of *)
(* ndmp/src/ndmp_config.c.                                                 *)
(*                                                                         *)
(* A line is the sequence of the words that strtok_r() finds in it; a word *)
(* that ends in a colon is a label.  Spacing and line ends are left out,   *)
(* so that a name or a value is a sequence of words.                       *)
(***************************************************************************)
EXTENDS Integers, Sequences, SequencesExt, FiniteSetsExt

Labels == {"Host:", "Channel:", "Id:", "Lun:", "Vendor:", "Model:", "Rev:",
           "Type:", "revision:"}

\* The first label of a line from word k on, or the place after the line.
NextLabel(line, k) ==
    LET labels == {i \in k..Len(line) : line[i] \in Labels} IN
    IF labels = {} THEN Len(line) + 1 ELSE Min(labels)

\* Seeded bug: get_value does not stop after the word that follows "Type:".
ValueEnd_Greedy(line, k, n) == NextLabel(line, n + 1) - 1

\* Where the value of the label at n ends: before the next label; after one
\* word if the name is "Type:".
ValueEnd(line, k, n) ==
    IF k = n /\ line[n] = "Type:" THEN n + 1 ELSE NextLabel(line, n + 1) - 1

\* The loop of get_scsi_info over one line: get_name takes the words up to a
\* label, with the label, and get_value those that follow.
Pairs(line) ==
    LET from[k \in 1..(Len(line) + 1)] ==
            IF k > Len(line) THEN <<>>
            ELSE LET n == NextLabel(line, k)
                     e == ValueEnd(line, k, n)
                 IN <<[name |-> SubSeq(line, k, n), value |-> SubSeq(line, n + 1, e)]>>
                    \o from[e + 1]
    IN from[1]

\* The value of a property among some pairs, the last one if it is repeated,
\* and what there was before if it is not among them.
ValueIn(pairs, name, before) ==
    LET found == {i \in DOMAIN pairs : pairs[i].name = <<name>>} IN
    IF found = {} THEN before ELSE pairs[Max(found)].value

\* What malloc gives for a device.
NewDevice == [model |-> <<"uninitialised">>, device |-> <<"uninitialised">>, caps |-> <<>>]

\* A line that begins with "Host:" starts a device; all it says goes to the
\* last device that was started.
ReadLine(devices, line) ==
    LET started == IF line[1] = "Host:" THEN Append(devices, NewDevice) ELSE devices
        last == Len(started)
        pairs == Pairs(line)
    IN [started EXCEPT ![last] =
            [model  |-> ValueIn(pairs, "Model:", @.model),
             device |-> ValueIn(pairs, "Type:", @.device),
             caps   |-> @.caps \o pairs]]

GetScsiInfo(lines) == FoldLeft(ReadLine, <<>>, lines)

-----------------------------------------------------------------------------
(***************************************************************************)
(* The file, as the kernel writes it, and what it says.                    *)
(***************************************************************************)

KernelLines(d) ==
    << <<"Host:", d.host, "Channel:", "00", "Id:", "00", "Lun:", "00">>,
       <<"Vendor:">> \o d.vendor \o <<"Model:">> \o d.model \o <<"Rev:">> \o d.rev,
       <<"Type:">> \o d.type \o <<"ANSI", "SCSI", "revision:">> \o d.ansi >>

\* The lines after the first one, which says "Attached devices:".
ProcScsi(devices) == FlattenSeq([i \in DOMAIN devices |-> KernelLines(devices[i])])

\* What a client should be told of a device.
Described(d) ==
    [model |-> d.model, device |-> d.type,
     caps  |-> << [name |-> <<"Host:">>, value |-> <<d.host>>],
                  [name |-> <<"Channel:">>, value |-> <<"00">>],
                  [name |-> <<"Id:">>, value |-> <<"00">>],
                  [name |-> <<"Lun:">>, value |-> <<"00">>],
                  [name |-> <<"Vendor:">>, value |-> d.vendor],
                  [name |-> <<"Model:">>, value |-> d.model],
                  [name |-> <<"Rev:">>, value |-> d.rev],
                  [name |-> <<"Type:">>, value |-> d.type],
                  [name |-> <<"ANSI", "SCSI", "revision:">>, value |-> d.ansi] >>]
=============================================================================
