------------------------------- MODULE GridLink -------------------------------
(***************************************************************************)
(* Packages and the serial portal: a host sends frames over COM1, and the  *)
(* kernel reads them (link.c, pkg.c, ai.c), byte by byte and with limits   *)
(* on how long it waits, writes the files to GFS and keeps its tables of   *)
(* packages and modules.  Nothing tells a receiver that bytes belong to a  *)
(* frame it gave up, or that one of them was taken for an echo.            *)
(*                                                                         *)
(* A word of a frame is one symbol: <<"pkg">>, <<"file">>, <<"end">> and   *)
(* the like are the headers of GRIDLINK/1.0, <<"path", p>> and <<"num", n>>*)
(* the parts of an entry, <<"nl">> the end of a line.                      *)
(* Contents are made of symbols too; the lines of a manifest are those of  *)
(* PkgTable.                                                               *)
(***************************************************************************)
EXTENDS PkgTable, SerialLine, Integers

CONSTANTS
    Paths,
    ManifestPaths,      \* those that end in /MANIFEST, in the order of inodes
    NoFile, Torn,       \* no such file; what a write that failed may leave
    OnDisk,             \* files of the first boot: a function to contents
    Seed, SeedPath,     \* the manifest built into the kernel
    Frames,             \* what a host may send
    Spoken,             \* words the kernel prints that occur in frames too
    HeaderTries, EntryTries, EndTries, AiTries,  \* limits on lines read
    FileSizeMax,        \* GFS_FILE_MAX
    Ahead,              \* bytes that may wait in the port
    FramesMax, CommandsMax

ASSUME LinkAssumption ==
    /\ {HeaderTries, EntryTries, EndTries, AiTries} \subseteq Nat \ {0}
    /\ {FileSizeMax, Ahead, FramesMax, CommandsMax} \subseteq Nat
    /\ OnDisk \in [Paths -> {NoFile} \cup {OnDisk[p] : p \in Paths}]

NL == <<"nl">>

(* The lines a file may have: of those there are at first, of the manifest *)
(* in the kernel, and what is received.                                    *)
HostWords == UNION {Range(f) : f \in Frames}
Words == HostWords \cup Spoken
Texts == {Seed, Torn} \cup {OnDisk[p] : p \in {q \in Paths : OnDisk[q] # NoFile}}
Lines == Words \cup UNION {Range(text) : text \in Texts}

ASSUME TextAssumption ==
    /\ Frames \subseteq Seq(Words) /\ Texts \subseteq Seq(Lines)
    /\ ManifestPaths \in Seq(Paths)

VARIABLES
    loops,      \* the terminal sends back what it receives
    host,       \* what the host has still to send of its frame
    rx,         \* bytes that wait in the port
    tx,         \* bytes sent and not seen again
    pc,         \* what the kernel reads for
    line,       \* what serial_read_line has so far
    tries,      \* lines this loop has read
    got,        \* the file being received: [path, size, data]
    last,       \* last_manifest
    mode,       \* of an answer: 0 no header yet, 1 OK, 2 ERR
    result,     \* of the last command
    disk, table,
    sent, asked,    \* frames and commands so far, for the bounds
    arrival,    \* of what the host sent: all read; some typed to the shell; or
                \* "hurt": a byte not delivered, or a line cut by a timeout
    swapped     \* symbol -> host bytes taken for echoes, less echoes delivered

port == <<loops, host, rx, tx, arrival, swapped>>
reader == <<pc, line, tries, got, last, mode>>
store == <<disk, table>>
vars == <<port, reader, result, store, sent, asked>>

Nothing == [path |-> NoName, size |-> 0, data |-> <<>>]

(* pkg_install_manifest                                                    *)
pkg_install_manifest(t, d, p) ==
    IF d[p] \in {NoFile, <<>>} THEN t ELSE pkg_parse_manifest_text(t, d[p], p)

pkg_rescan_more(t, d) ==
    FoldLeft(LAMBDA u, p : pkg_install_manifest(u, d, p), t, ManifestPaths)

pkg_rescan_kept(t, d) == pkg_rescan_more(t, d)

(* pkg_rescan forgets both tables and installs every manifest on the disk. *)
pkg_rescan(t, d) == pkg_rescan_more(EmptyTables, d)

(* pkg_init: with no module at all, the manifest in the kernel is used.    *)
pkg_init(t, d) ==
    LET scanned == pkg_rescan(t, d)
    IN  IF \E s \in ModSlots : scanned.mods[s].used THEN scanned
        ELSE pkg_parse_manifest_text(scanned, Seed, SeedPath)

Init ==
    /\ loops \in BOOLEAN
    /\ host = <<>> /\ rx = <<>> /\ arrival = "read"
    /\ tx \in {<<>>} \cup (IF loops THEN {} ELSE {<<w>> : w \in Spoken})
    /\ swapped = [w \in Words |-> 0]
    /\ pc = "shell" /\ line = <<>> /\ tries = 0 /\ got = Nothing
    /\ last = NoName /\ mode = 0 /\ result = "none"
    /\ disk = OnDisk
    /\ table = pkg_init(EmptyTables, OnDisk)
    /\ sent = 0 /\ asked = 0
-----------------------------------------------------------------------------
(* The host. *)

HostStarts ==
    /\ host = <<>> /\ sent < FramesMax
    /\ \E f \in Frames : host' = f
    /\ sent' = sent + 1
    /\ UNCHANGED <<loops, rx, tx, arrival, swapped, reader, result, store, asked>>

HostSends ==
    /\ host # <<>> /\ Len(rx) < Ahead
    /\ rx' = Append(rx, FromHost(Head(host)))
    /\ host' = Tail(host)
    /\ UNCHANGED <<loops, tx, arrival, swapped, reader, result, store, sent, asked>>

(* What the kernel prints goes to COM1 (console.c mirrors it) and, with a  *)
(* terminal that loops, comes back behind what has arrived.                *)
Say(w) ==
    /\ tx' = ser_tx_record(tx, w)
    /\ rx' = IF loops THEN Append(rx, Echo(w)) ELSE rx
    /\ UNCHANGED <<loops, host, arrival, swapped>>
-----------------------------------------------------------------------------
(* The shell. *)

Command == pc = "shell" /\ asked < CommandsMax /\ asked' = asked + 1 /\ UNCHANGED sent

StartReading(at) ==
    /\ pc' = at /\ line' = <<>> /\ tries' = 0 /\ got' = Nothing
    /\ last' = NoName /\ mode' = 0
    /\ result' = "none"
    /\ UNCHANGED store

(* `pkg recv' and `portal pkg', `portal recv', and a request to the        *)
(* assistant whose bridge is not there on the network (ai_dispatch): each  *)
(* prints, and reads.                                                      *)
Receive(at) ==
    /\ Command
    /\ StartReading(at)
    /\ \/ \E w \in Spoken : Say(w)
       \/ UNCHANGED port

PkgRecv == Receive("pkg_header")
PortalRecv == Receive("file_header")
AiAsk == Receive("ai")

PkgInstall ==
    /\ Command
    /\ \E p \in Range(ManifestPaths) :
          table' = pkg_install_manifest(table, disk, p)
    /\ UNCHANGED <<port, reader, result, disk>>

(* `pkg remove': that a file cannot be deleted is not noticed.             *)
PkgRemove ==
    /\ Command
    /\ \E n \in {table.pkgs[s].name : s \in {x \in PkgSlots : table.pkgs[x].used}} :
          /\ \E gone \in SUBSET (FilesOf(table, n) \cap Paths) :
                disk' = [p \in Paths |-> IF p \in gone THEN NoFile ELSE disk[p]]
          /\ table' = pkg_remove(table, n)
    /\ UNCHANGED <<port, reader, result>>

(* The machine is restarted, in the middle of anything.                    *)
Boot ==
    /\ asked < CommandsMax /\ asked' = asked + 1
    /\ table' = pkg_init(table, disk)
    /\ pc' = "shell" /\ line' = <<>> /\ tries' = 0 /\ got' = Nothing
    /\ last' = NoName /\ mode' = 0 /\ result' = "none"
    /\ rx' = <<>> /\ tx' = <<>> /\ arrival' = IF rx # <<>> THEN "hurt" ELSE arrival
    /\ swapped' = [w \in Words |-> 0]
    /\ UNCHANGED <<loops, host, disk, sent>>
-----------------------------------------------------------------------------
(* Lines and bytes. *)

EndsLine(c) == c[1] \in {"nl", "name", "own", "mod", "text"}

(* The byte that waits, as serial_read_byte takes it.                      *)
Taken == serial_read_byte(tx, Head(rx))

TakeByte ==
    /\ rx # <<>>
    /\ LET b == Head(rx)
       IN  /\ rx' = Tail(rx)
           /\ tx' = Taken.tx
           /\ arrival' = IF ~Taken.got /\ ~b.echo THEN "hurt"
                         ELSE IF pc = "shell" /\ ~b.echo /\ arrival = "read" THEN "typed"
                         ELSE arrival
           /\ swapped' = IF Taken.got = b.echo /\ b.c # NUL
                         THEN [swapped EXCEPT ![b.c] = @ + (IF b.echo THEN -1 ELSE 1)]
                         ELSE swapped
    /\ UNCHANGED <<loops, host, sent, asked>>

Return(r) ==
    /\ pc' = "shell" /\ result' = r
    /\ line' = <<>> /\ tries' = 0 /\ got' = Nothing /\ last' = NoName /\ mode' = 0

Continue(at, n) == pc' = at /\ tries' = n /\ line' = <<>> /\ UNCHANGED result

Starts(l, word) == l # <<>> /\ l[1] = word

(* gfs_write_file may fail, and leave the old file or a part of the new.   *)
WriteFile(p, d, done, failed) ==
    \/ p \in Paths /\ disk' = [disk EXCEPT ![p] = d] /\ done
    \/ p \in Paths /\ disk' = [disk EXCEPT ![p] = Torn] /\ failed
    \/ UNCHANGED disk /\ failed

(* The end of pkg_recv_gridlink, however its second loop ended.            *)
PkgFinish ==
    /\ pc = "pkg_finish"
    /\ table' = IF last # NoName THEN pkg_install_manifest(table, disk, last)
                ELSE pkg_rescan(table, disk)
    /\ Return("installed")
    /\ UNCHANGED <<port, disk, sent, asked>>

(* pkg_recv_gridlink's first loop reads a line.  When it has read as many  *)
(* as it may, the second loop begins all the same.                         *)
PkgHeaderLine(l) ==
    /\ UNCHANGED store
    /\ IF Starts(l, <<"pkg">>)
       THEN Continue("pkg_entry", 0) /\ UNCHANGED <<got, last, mode>>
       ELSE IF Starts(l, <<"end">>)
       THEN Return("empty")
       ELSE /\ IF tries + 1 = HeaderTries THEN Continue("pkg_entry", 0)
               ELSE Continue("pkg_header", tries + 1)
            /\ UNCHANGED <<got, last, mode>>

(* Its second loop reads the line of an entry: a path and a size.          *)
NextEntry ==
    /\ Continue(IF tries + 1 = EntryTries THEN "pkg_finish" ELSE "pkg_entry", tries + 1)
    /\ got' = Nothing /\ UNCHANGED mode

IsEntry(l) ==
    /\ Len(l) > 1 /\ l[1][1] = "path" /\ l[2][1] = "num"
    /\ l[2][2] \in 1..FileSizeMax

PkgEntryLine(l) ==
    /\ UNCHANGED <<store, last>>
    /\ IF Starts(l, <<"end">>)
       THEN Continue("pkg_finish", tries) /\ UNCHANGED <<got, mode>>
       ELSE IF IsEntry(l)
       THEN /\ Continue("pkg_data", tries)
            /\ got' = [path |-> l[1][2], size |-> l[2][2], data |-> <<>>]
            /\ UNCHANGED mode
       ELSE NextEntry

(* gridlink_recv_file: the header, which holds the path, ...               *)
FileHeaderLine(l) ==
    /\ UNCHANGED store
    /\ IF Starts(l, <<"file">>)
       THEN IF Len(l) > 1 /\ l[2][1] = "path"
            THEN /\ Continue("file_size", 0)
                 /\ got' = [Nothing EXCEPT !.path = l[2][2]]
                 /\ UNCHANGED <<last, mode>>
            ELSE Return("bad path")
       ELSE IF tries + 1 = HeaderTries THEN Return("no header")
       ELSE Continue("file_header", tries + 1) /\ UNCHANGED <<got, last, mode>>

(* ... the size: any line that is not empty is taken for it, ...           *)
FileSizeLine(l) ==
    /\ UNCHANGED store
    /\ IF l = <<>> /\ tries + 1 < EntryTries
       THEN Continue("file_size", tries + 1) /\ UNCHANGED <<got, last, mode>>
       ELSE IF l # <<>> /\ l[1][1] = "num" /\ l[1][2] \in 1..FileSizeMax
       THEN /\ Continue("file_data", 0) /\ got' = [got EXCEPT !.size = l[1][2]]
            /\ UNCHANGED <<last, mode>>
       ELSE Return("bad size")

(* ... and, after the data, the end, for which it does not wait for ever.  *)
FileEndLine(l) ==
    IF Starts(l, <<"end">>) \/ tries + 1 = EndTries
    THEN /\ WriteFile(got.path, got.data, Return("received"), Return("write failed"))
         /\ UNCHANGED table
    ELSE Continue("file_end", tries + 1) /\ UNCHANGED <<store, got, last, mode>>

AiNextLineRestarts(m, n) ==
    /\ Continue("ai", IF n = AiTries THEN 0 ELSE n)
    /\ mode' = m /\ UNCHANGED <<got, last>>

AiNextLine(m, n) ==
    IF n = AiTries THEN Return("offline")
    ELSE Continue("ai", n) /\ mode' = m /\ UNCHANGED <<got, last>>

(* try_serial_bridge reads a line; what it gives up is answered offline.   *)
AiLine(l) ==
    /\ UNCHANGED store
    /\ IF l = <<>> THEN AiNextLine(mode, tries + 1)
       ELSE IF l = <<<<"ai_end">>>>
       THEN Return(IF mode = 1 THEN "answered" ELSE "offline")
       ELSE IF l = <<<<"ai_ok">>>> THEN AiNextLine(1, tries + 1)
       ELSE IF l = <<<<"ai_err">>>> THEN AiNextLine(2, tries + 1)
       ELSE AiNextLine(mode, tries + 1)

OnLine(l) ==
    \/ pc = "pkg_header" /\ PkgHeaderLine(l)
    \/ pc = "pkg_entry" /\ PkgEntryLine(l)
    \/ pc = "file_header" /\ FileHeaderLine(l)
    \/ pc = "file_size" /\ FileSizeLine(l)
    \/ pc = "file_end" /\ FileEndLine(l)
    \/ pc = "ai" /\ AiLine(l)

ReadsLines == pc \in {"pkg_header", "pkg_entry", "file_header", "file_size", "file_end", "ai"}

(* serial_read_line takes a byte ...                                       *)
LineGets(c) ==
    IF c = NL THEN OnLine(line)
    ELSE IF EndsLine(c) THEN OnLine(Append(line, c))
    ELSE /\ line' = Append(line, c)
         /\ UNCHANGED <<pc, tries, got, last, mode, result, store>>

LineByte ==
    /\ ReadsLines
    /\ TakeByte
    /\ IF Taken.got THEN LineGets(Head(rx).c) ELSE UNCHANGED <<reader, result, store>>

(* ... or has polled spin_limit times for nothing, and returns what it has.*)
LineTimeout ==
    /\ ReadsLines /\ rx = <<>>
    /\ OnLine(line)
    /\ arrival' = IF line # <<>> THEN "hurt" ELSE arrival
    /\ UNCHANGED <<loops, host, rx, tx, swapped, sent, asked>>

(* The data of an entry: the first poll that finds no byte for it ends the *)
(* entry, and what follows is read as lines.                               *)
PkgDataGets(c) ==
    LET d == Append(got.data, c)
        manifest == got.path \in Range(ManifestPaths)
    IN  IF Len(d) < got.size
        THEN /\ got' = [got EXCEPT !.data = d]
             /\ UNCHANGED <<pc, line, tries, last, mode, result, store>>
        ELSE /\ WriteFile(got.path, d, last' = IF manifest THEN got.path ELSE last,
                          UNCHANGED last)
             /\ NextEntry
             /\ UNCHANGED table

PkgDataGivesUpShort ==
    /\ WriteFile(got.path, got.data, UNCHANGED last, UNCHANGED last)
    /\ NextEntry
    /\ UNCHANGED table

PkgDataGivesUp == NextEntry /\ UNCHANGED <<last, store>>

PkgDataByte ==
    /\ pc = "pkg_data"
    /\ TakeByte
    /\ IF Taken.got THEN PkgDataGets(Head(rx).c) ELSE PkgDataGivesUp

PkgDataNone ==
    /\ pc = "pkg_data" /\ rx = <<>>
    /\ PkgDataGivesUp
    /\ UNCHANGED <<port, sent, asked>>

(* The data of a file: gridlink_recv_file waits for every byte of it.      *)
FileDataGets(c) ==
    LET d == Append(got.data, c)
    IN  /\ got' = [got EXCEPT !.data = d]
        /\ IF Len(d) = got.size THEN Continue("file_end", 0)
           ELSE UNCHANGED <<pc, tries, line, result>>
        /\ UNCHANGED <<last, mode, store>>

FileDataByte ==
    /\ pc = "file_data"
    /\ TakeByte
    /\ IF Taken.got THEN FileDataGets(Head(rx).c) ELSE UNCHANGED <<reader, result, store>>

(* At the prompt the bytes are typed to the shell, and no command.         *)
Typed == pc = "shell" /\ TakeByte /\ UNCHANGED <<reader, result, store>>

Kernel == LineByte \/ LineTimeout \/ PkgDataByte \/ PkgDataNone \/ FileDataByte \/ PkgFinish
Shell == PkgRecv \/ PortalRecv \/ AiAsk \/ PkgInstall \/ PkgRemove \/ Typed
Next == HostStarts \/ HostSends \/ Shell \/ Boot \/ Kernel

(* The kernel's loops run, unless one waits for a byte that does not come: *)
(* this is WF_vars(Kernel), with its ENABLED written out for TLC.  Nothing *)
(* is asked of the host or of the user.                                    *)
KernelCanStep == pc # "shell" /\ (pc = "file_data" => rx # <<>>)
Fairness == []<>~KernelCanStep \/ []<><<Kernel>>_vars

Spec == Init /\ [][Next]_vars /\ Fairness
-----------------------------------------------------------------------------
(***************************************************************************)
(* On a terminal that loops, once every echo has come back none is pending *)
(* and what the kernel read is, word for word, what the host sent: a host  *)
(* byte is taken for an echo only if that echo is then read in its place.  *)
(***************************************************************************)
EchoCancels ==
    loops /\ (\A i \in 1..Len(rx) : ~rx[i].echo) =>
        tx = <<>> /\ \A w \in Words : swapped[w] = 0

(***************************************************************************)
(* Installs, re-installs, take-overs, removals and manifests cut short: a  *)
(* module is registered once, and belongs to an installed package unless   *)
(* its manifest had no name.                                               *)
(***************************************************************************)
ModulesOwned ==
    \A s \in ModSlots : table.mods[s].used =>
        /\ Registered(table, table.mods[s].name) = {s}
        /\ table.mods[s].pkg = NoName \/ Installed(table, table.mods[s].pkg) # {}

(* What a frame announces: the paths with their contents.                  *)
Announced(f) ==
    {<<f[i][2], SubSeq(f, i + 3, i + 2 + f[i + 1][2])>> :
        i \in {j \in 1..(Len(f) - 2) :
                 f[j][1] = "path" /\ f[j + 1][1] = "num" /\ f[j + 2] = NL}}
    \cup {<<f[i][2], SubSeq(f, i + 4, i + 3 + f[i + 2][2])>> :
        i \in {j \in 1..(Len(f) - 3) :
                 f[j][1] = "path" /\ f[j + 1] = NL /\ f[j + 2][1] = "num"}}

(***************************************************************************)
(* A file that a receiver writes is whole and is what a host announced for *)
(* that path, however frames are cut by timeouts, given up and read again  *)
(* in the middle, unless a byte was lost on the way or a line was cut.     *)
(***************************************************************************)
ReceivedWhole ==
    [][\A p \in Paths :
         disk'[p] # disk[p] /\ disk'[p] \notin {NoFile, Torn} /\ arrival' # "hurt" =>
           \E f \in Frames : <<p, disk'[p]>> \in Announced(f)]_vars

(***************************************************************************)
(* After a restart the modules are those of the manifests on the disk,     *)
(* each with the package that names it last; what was installed, removed   *)
(* or lost in memory before makes no difference.                           *)
(***************************************************************************)
Text(d, i) == d[ManifestPaths[i]]
Readable(d) == {i \in 1..Len(ManifestPaths) : Text(d, i) \notin {NoFile, Torn, <<>>}}
ModLines(text) == {l \in Range(text) : l[1] = "mod"}
NameOf(text) == (CHOOSE l \in Range(text) : l[1] = "name")[2]

NamedLast(d, i, l) ==
    \A j \in Readable(d) : j > i => \A k \in ModLines(Text(d, j)) : k[2] # l[2]

OfManifests(d) ==
    UNION {{<<l[2], l[3], NameOf(Text(d, i))>> :
                l \in {k \in ModLines(Text(d, i)) : NamedLast(d, i, k)}} :
            i \in Readable(d)}

BootRestores ==
    [][Boot =>
        LET found == {<<m.name, m.path, m.pkg>> : m \in {n \in Range(table'.mods) : n.used}}
        IN  found = IF OfManifests(disk) # {} THEN OfManifests(disk)
                    ELSE {<<l[2], l[3], NameOf(Seed)>> : l \in ModLines(Seed)}]_vars

(***************************************************************************)
(* Whatever the host sends or stops sending, receiving a package and       *)
(* asking the assistant come to an end.                                    *)
(***************************************************************************)
Bounded == {"pkg_header", "pkg_entry", "pkg_data", "pkg_finish", "ai"}

ReceivesEnd == pc \in Bounded ~> pc = "shell"
==============================================================================
