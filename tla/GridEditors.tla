------------------------------ MODULE GridEditors ------------------------------
(***************************************************************************)
(* The two editors on one console and one disk: the GridBASIC editor that  *)
(* the machine starts in (basic_ide.c), the shell behind its command line, *)
(* and the Grid Workbench that the shell can open (ide.c).  Whoever has    *)
(* the console runs alone; what goes wrong goes wrong between a text in    *)
(* memory, the path it stands for and the file on the disk, when reads     *)
(* fail half-way, lines do not fit and one editor is opened in the other.  *)
(***************************************************************************)
EXTENDS EditBuffer, ScriptText, FiniteSets

CONSTANTS
    Paths, NoFile,
    Torn,           \* what a write that failed half-way leaves to be read
    Dir,            \* the directory of each path
    Digit,          \* 1..9 when the name in it begins with that digit, else 0
    Inodes,         \* the paths in the order of gfs_list_paths
    OnDisk,         \* the files at first
    Untitled, Welcome,
    Icons,          \* directories that desktop icons change to; "/source" is one
    Foreign,        \* contents that other commands write
    Compiled,       \* stands for bytecode
    Chars, Numbers, Texts,  \* what is typed
    ListMax,        \* IDE_FILESEL_MAX
    NestMax,        \* calls of basic_ide inside one another that are looked at
    Budget          \* of which a key takes 1 and a command 2

ASSUME EditorsAssumption ==
    /\ {ListMax, NestMax, Budget} \subseteq Nat
    /\ Untitled \in Paths /\ Welcome \in Paths
    /\ Digit \in [Paths -> 0..9]
    /\ NL \notin Chars

(* What files and lines are made of.                                       *)
Contents == {Torn, Compiled} \cup Foreign \cup Texts
            \cup {OnDisk[p] : p \in {q \in Paths : OnDisk[q] # NoFile}}
Words == {Blank, NL} \cup Chars \cup UNION {Range(s) : s \in Contents}

ASSUME ContentsAssumption ==
    /\ Contents \subseteq Seq(Words) /\ \A c \in Words : IsNum(c) => c[2] \in Nat
    /\ OnDisk \in [Paths -> {NoFile} \cup Contents]
    /\ Inodes \in Seq(Paths) /\ Numbers \subseteq Nat

(* A line is typed into IDE_LINE_MAX characters, its number in front.      *)
ASSUME TypedAssumption ==
    \A text \in Texts : NL \notin Range(text) /\ Len(text) + 2 <= TextMax

VARIABLES
    files,
    ide,        \* the one buffer of the GridBASIC editor
    seen,       \* what the file at ide.path held when it was read or written
    depth,      \* calls of basic_ide that have not returned
    bench,      \* the Workbench; its view is "closed" when it is not open
    spent       \* of Budget

vars == <<files, ide, seen, depth, bench, spent>>

(* What the Workbench keeps, and `seen' and `mixed' for the properties:    *)
(* the file it read or wrote last, and whether source was overwritten by a *)
(* part of a file or of itself.                                            *)
Fresh ==
    [source |-> <<>>, path |-> Untitled, modified |-> FALSE, view |-> "editor",
     saving |-> FALSE, list |-> <<>>, volume |-> "/source", ran |-> <<>>,
     seen |-> <<>>, mixed |-> FALSE]

Closed == [Fresh EXCEPT !.view = "closed"]
InBasic == bench.view = "closed"
InBench == ~InBasic

Spend(n) == spent + n <= Budget /\ spent' = spent + n
Command == Spend(2)
-----------------------------------------------------------------------------
(* The disk.  gfs_write_file that fails leaves the old file or a part of   *)
(* the new; gfs_read_file fails on a file that is too long, too.           *)
Written_at(p, content) == files' = [files EXCEPT ![p] = content]
WriteFails(p) == files' \in {files, [files EXCEPT ![p] = Torn]}
Readable(p, room) == files[p] # NoFile /\ Len(files[p]) <= room

Init ==
    /\ files = OnDisk
    /\ ide = EmptyBuffer /\ seen = NoFile /\ depth = 1
    /\ bench = Closed
    /\ spent = 0
-----------------------------------------------------------------------------
(* The GridBASIC editor. *)

Moves == {<<-1, 0>>, <<1, 0>>, <<0, -1>>, <<0, 1>>}

Pressed ==
    {TypeChar(ide, c) : c \in Chars} \cup {Arrow(ide, m[1], m[2]) : m \in Moves}
    \cup {TypeTab(ide), Enter(ide), Backspace(ide), Delete(ide), Home(ide), EndKey(ide)}

Press ==
    /\ InBasic /\ Spend(1)
    /\ ide' \in Pressed
    /\ UNCHANGED <<files, seen, depth, bench>>

Basic == InBasic /\ Command /\ UNCHANGED <<depth, bench>>

(* :save, which is refused when the text is too long.                      *)
Save(p) ==
    /\ Basic
    /\ ~source_over_limit(ide)
    /\ Written_at(p, serialize(ide))
    /\ ide' = [ide EXCEPT !.path = p, !.dirty = FALSE]
    /\ seen' = serialize(ide)

SaveFails(p) ==
    /\ Basic
    /\ IF source_over_limit(ide) THEN UNCHANGED files ELSE WriteFails(p)
    /\ UNCHANGED <<ide, seen>>

(* :load and :mod load: the file is read apart from the buffer, so that    *)
(* one that cannot be read changes nothing.                                *)
Load(p) ==
    /\ Basic
    /\ Readable(p, SrcMax - 1)
    /\ ide' = parse_source_into(ide, p, files[p])
    /\ seen' = files[p]
    /\ UNCHANGED files

(* :new                                                                    *)
New == Basic /\ ide' = EmptyBuffer /\ seen' = NoFile /\ UNCHANGED files

(* :compile writes bytecode, and the text stays as it is.                  *)
Compile(p) ==
    /\ Basic
    /\ ~source_over_limit(ide)
    /\ Written_at(p, Compiled) \/ WriteFails(p)
    /\ UNCHANGED <<ide, seen>>

(* :goto and :find put the cursor somewhere in the text.                   *)
Seek ==
    /\ Basic
    /\ \E row \in 1..Len(ide.lines) :
          \/ ide' = [ide EXCEPT !.row = row, !.col = 0]
          \/ row >= ide.row /\ \E col \in 0..(Len(ide.lines[row]) - 1) :
                ide' = [ide EXCEPT !.row = row, !.col = col]
    /\ UNCHANGED <<files, seen>>

(* :run, and every command of the embedded shell, may write files; what    *)
(* they write is not part of this module.                                  *)
ShellWrites ==
    /\ Basic
    /\ \E p \in Paths, content \in Foreign : Written_at(p, content)
    /\ UNCHANGED <<ide, seen>>

(* basic_ide.                                                              *)
basic_ide(p) ==
    \/ /\ Readable(p, SrcMax - 1)
       /\ ide' = parse_source_into(ide, p, files[p])
       /\ seen' = files[p]
    \/ /\ ide' = [EmptyBuffer EXCEPT !.path = p]
       /\ seen' = NoFile

(* `basic mod load' of the embedded shell calls basic_ide once more, which *)
(* `basic' and `basic ide' are kept from.                                  *)
Reenter(p) ==
    /\ InBasic /\ Command /\ depth < NestMax
    /\ depth' = depth + 1
    /\ basic_ide(p)
    /\ UNCHANGED <<files, bench>>
-----------------------------------------------------------------------------
(* The Workbench. *)

(* ide_load                                                                *)
Loaded(b, p) ==
    [b EXCEPT !.source = files[p], !.path = p, !.modified = FALSE, !.view = "editor",
              !.seen = files[p], !.mixed = FALSE]

(* A read that stops after k symbols has written them over the source.     *)
Spliced(b, p, k) ==
    [b EXCEPT !.source = SubSeq(files[p], 1, k) \o SubSeq(@, k + 1, Len(@)),
              !.mixed = TRUE]

CanRead(p) == Readable(p, SourceMax - 1)

(* What loading p may leave of b when it fails.                            *)
LoadFails(b, p) ==
    {b} \cup (IF CanRead(p) THEN {Spliced(b, p, k) : k \in 1..(Len(files[p]) - 1)} ELSE {})

(* `ide': ide_run starts over, with the file named or the welcome file.    *)
OpenBench(p) ==
    /\ InBasic /\ Command
    /\ \/ CanRead(p) /\ bench' = Loaded(Fresh, p)
       \/ \E b \in LoadFails(Fresh, p) : bench' = [b EXCEPT !.path = p]
    /\ UNCHANGED <<files, ide, seen, depth>>

OpenBenchPlain ==
    /\ InBasic /\ Command
    /\ \/ CanRead(Welcome) /\ bench' = Loaded(Fresh, Welcome)
       \/ bench' = Fresh
    /\ UNCHANGED <<files, ide, seen, depth>>

Bench == InBench /\ Command /\ UNCHANGED <<ide, seen, depth>>

(* Commands are not read while a name is asked for.                        *)
AtCommand == Bench /\ bench.view # "filesel"

Show(b, view) == [b EXCEPT !.view = view, !.ran = <<>>]

(* Function keys, Esc, the commands and icons that change the view.        *)
BenchView ==
    /\ Bench
    /\ bench' \in {Show(bench, v) : v \in {"desktop", "cli"}
                        \cup (IF bench.view = "filesel" THEN {} ELSE {"editor"})}
    /\ UNCHANGED files

Listed(dir) == Upto(Only(Inodes, {p \in Paths : Dir[p] = dir /\ files[p] # NoFile}), ListMax)

(* open_filesel                                                            *)
open_filesel(b, saving) ==
    [Show(b, "filesel") EXCEPT
        !.saving = saving,
        !.list = IF Listed(b.volume) = <<>> /\ ~saving THEN Listed("/source")
                 ELSE Listed(b.volume)]

BenchFiles ==
    /\ Bench
    /\ \E saving \in BOOLEAN : bench' = open_filesel(bench, saving)
    /\ UNCHANGED files

(* Desktop icons that change the volume; the one of /source lists it.      *)
BenchIcon ==
    /\ Bench /\ bench.view = "desktop"
    /\ \E dir \in Icons :
          LET b == [bench EXCEPT !.volume = dir]
          IN  bench' = IF dir = "/source" THEN open_filesel(b, FALSE) ELSE Show(b, "cli")
    /\ UNCHANGED files

Saved(b) == [b EXCEPT !.modified = FALSE, !.seen = b.source, !.mixed = FALSE]

(* ide_save of b; gfs_write_file refuses an empty source.                  *)
ide_save(b, done, failed) ==
    \/ b.source # <<>> /\ Written_at(b.path, b.source) /\ bench' = done
    \/ b.source # <<>> /\ WriteFails(b.path) /\ bench' = failed
    \/ b.source = <<>> /\ UNCHANGED files /\ bench' = failed

BenchSave ==
    /\ Bench
    /\ ide_save(bench, [Saved(bench) EXCEPT !.ran = <<>>], [bench EXCEPT !.ran = <<>>])

(* handle_filesel_pick of the number of a file in the list: whatever comes *)
(* of it, the editor is shown.                                             *)
PickListed(i) ==
    LET p == bench.list[i]
        named == [bench EXCEPT !.path = p]
    IN  IF bench.saving
        THEN ide_save(named, Show(Saved(named), "editor"), Show(named, "editor"))
        ELSE /\ \/ CanRead(p) /\ bench' = Loaded(bench, p)
                \/ \E b \in LoadFails(bench, p) : bench' = Show(b, "editor")
             /\ UNCHANGED files

PickNamed(p) ==
    LET named == [bench EXCEPT !.path = p]
    IN  IF bench.saving
        THEN ide_save(named, Show(Saved(named), "editor"), named)
        ELSE /\ \/ CanRead(p) /\ bench' = Loaded(bench, p)
                \/ bench' \in LoadFails(bench, p)
             /\ UNCHANGED files

BenchPick ==
    /\ Bench /\ bench.view = "filesel"
    /\ \E i \in 1..(IF Len(bench.list) < 9 THEN Len(bench.list) ELSE 9) : PickListed(i)

(* A name is typed: in full, or without the directory when it is in the    *)
(* volume.  When its first character is the number of a file in the list,  *)
(* that file is taken.                                                     *)
BenchName(p, short) ==
    /\ Bench /\ bench.view = "filesel"
    /\ short => Dir[p] = bench.volume
    /\ IF short /\ Digit[p] \in 1..Len(bench.list) THEN PickListed(Digit[p])
       ELSE PickNamed(p)

(* A numbered line, or a number alone.                                     *)
BenchLine(n, text) ==
    /\ AtCommand /\ bench.view = "editor"
    /\ LET b == IF text = <<>> THEN ide_delete_line(bench, n) ELSE ide_set_line(bench, n, text)
       IN  bench' = [b EXCEPT !.mixed = @ \/ Len(b.source) = SourceMax - 1]
    /\ UNCHANGED files

(* NEW: ide_new_file                                                       *)
BenchNew ==
    /\ AtCommand
    /\ bench' = [Fresh EXCEPT !.saving = bench.saving, !.list = bench.list,
                              !.volume = bench.volume]
    /\ UNCHANGED files

(* RUN and F5                                                              *)
BenchRun ==
    /\ Bench
    /\ bench' = [bench EXCEPT !.view = "cli", !.ran = gridscript_lines(bench.source)]
    /\ UNCHANGED files

(* QUIT, F10, and the last icon; with changes there is a warning.          *)
BenchQuit == Bench /\ bench' = Closed /\ UNCHANGED files

Next ==
    \/ Press \/ OpenBenchPlain
    \/ \E p \in Paths : Save(p) \/ SaveFails(p) \/ Load(p) \/ Compile(p) \/ Reenter(p)
                        \/ OpenBench(p)
    \/ New \/ Seek \/ ShellWrites
    \/ BenchView \/ BenchFiles \/ BenchIcon \/ BenchSave \/ BenchPick
    \/ \E p \in Paths, short \in BOOLEAN : BenchName(p, short)
    \/ \E n \in Numbers, text \in Texts : BenchLine(n, text)
    \/ BenchNew \/ BenchRun \/ BenchQuit

Spec == Init /\ [][Next]_vars
-----------------------------------------------------------------------------
(***************************************************************************)
(* Texts keep to the arrays they are in, and after every key, load and     *)
(* search the cursor is in the text: the code uses row and col as indices  *)
(* without asking.                                                         *)
(***************************************************************************)
EditorsTypeOK ==
    /\ DOMAIN files = Paths
    /\ Len(ide.lines) \in 1..MaxLines
    /\ \A i \in 1..Len(ide.lines) : Len(ide.lines[i]) < LineLen
    /\ ide.row \in 1..Len(ide.lines)
    /\ ide.col \in 0..Len(Line(ide))
    /\ InBench => Len(bench.source) < SourceMax /\ Len(bench.list) <= ListMax

(***************************************************************************)
(* A buffer with no changes is the file that was read or written under its *)
(* path, but for an end of line at the end, whenever the lines of that file *)
(* fit: failed loads and saves, compiling and the editor in the editor     *)
(* make no difference.                                                     *)
(***************************************************************************)
FitsBuffer(s) == ~TooManyLines(s) /\ \A row \in Range(Rows(s)) : Len(row) < LineLen

CleanBufferIsFile ==
    ~ide.dirty /\ seen # NoFile /\ FitsBuffer(seen) =>
        serialize(ide) \in {seen, seen \o <<NL>>}

(* The Workbench's source likewise, unless it was overwritten by a part of *)
(* a file whose reading failed, or cut to what there is room for.          *)
CleanSourceIsFile ==
    InBench => (bench.modified \/ bench.mixed \/ bench.source = bench.seen)

CleanTextIsFile == CleanBufferIsFile /\ CleanSourceIsFile

(***************************************************************************)
(* What the keys do is what a text with a cursor in it promises.           *)
(***************************************************************************)
Joined(rows) == Front(Lines(rows))
Offset(b) == b.col + FoldLeft(LAMBDA n, row : n + Len(row) + 1, 0, SubSeq(b.lines, 1, b.row - 1))
Shelf == {files[p] : p \in {q \in Paths : Readable(q, SrcMax - 1)}}
Shown(f) == Joined(parse_source_into(EmptyBuffer, NoPath, f).lines)

Box == INSTANCE TextBox WITH
    Symbols <- Chars \cup {Blank, NL}, End <- NL, Fit <- LineLen - 1,
    text <- Joined(ide.lines), at <- Offset(ide), shelf <- Shelf

KeysEditText == Box!Spec

(***************************************************************************)
(* A numbered line typed in the Workbench changes the lines of its number  *)
(* only, if the source fits the arrays it is taken apart into.             *)
(***************************************************************************)
FitsScript(s) ==
    LET listing == Listing(s)
    IN  /\ Len(listing) < ScriptMax
        /\ \A x \in Range(listing) : Len(x.text) < TextMax
        /\ Len(Written(listing)) + TextMax < SourceMax

Others(s, n) ==
    ToBag(Only(Listing(s), {x \in Range(Listing(s)) : x.number \notin {0, n}}))

EditKeepsOthers ==
    [][\A n \in Numbers, text \in Texts :
         BenchLine(n, text) /\ FitsScript(bench.source) =>
            /\ Others(bench.source, n) = Others(bench'.source, n)
            /\ n > 0 => LET of == {x.text : x \in {y \in Range(Listing(bench'.source)) : y.number = n}}
                        IN  IF text = <<>> THEN of = {} ELSE text \in of]_vars

(***************************************************************************)
(* RUN executes the lines by their numbers, each once, up to the first END.*)
(***************************************************************************)
RunInOrder ==
    InBench /\ bench.ran # <<>> /\ FitsScript(bench.source) =>
        LET ends == {x.number : x \in {y \in Range(Listing(bench.source)) : Stops(y)}}
            due == {x \in Range(Listing(bench.source)) \cup Range(bench.ran) :
                        \A e \in ends : x.number < e}
        IN  /\ \A i, j \in 1..Len(bench.ran) :
                  i < j => bench.ran[i].number <= bench.ran[j].number
            /\ ToBag(Only(Listing(bench.source), due)) = ToBag(Only(bench.ran, due))
            /\ \A i \in 1..Len(bench.ran) : ~Stops(bench.ran[i])

==============================================================================
