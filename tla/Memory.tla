-------------------------------- MODULE Memory ---------------------------------
(* What an agent keeps for later (internal/memory): the store of memory files with its
   lock, its limit and its refusal of links (automemory.go, behind the tools of
   tool/memory.go), and the notes, one JSON record per line (memory.go). A write of a
   memory file is open, check and write; it may fail, and the process may die between
   any two of them. Add and Search of the notes hold their mutex for one system call
   or one pass over the file, so each is one step. *)
EXTENDS Integers, Sequences

CONSTANTS
    Workers,        \* tool calls that run at once
    Names,          \* names of memory files
    Links,          \* those of them that are symbolic links
    Sizes,          \* sizes of what is written
    Limit,          \* maxMemoryFileBytes
    RecordLimit,    \* maxJSONLRecordBytes, and the longest line that Search reads
    MaxParts,       \* bound: writes that one file is made of
    MaxNotes        \* bound: notes added

VARIABLES
    pc,         \* per worker: idle, open, check, write, read
    op,         \* per worker: its write, or the file that it reads
    lock,       \* the writer that holds s.mu, or None
    readers,    \* the readers that hold it
    files,      \* per name: the writes that the file is made of: [end, whole]
    settled,    \* the same if each write were one step that happens or does not
    got,        \* per worker: what its last read returned, and what was settled then
    notes,      \* lines of the notes file: [size, whole]
    piece       \* size of the unfinished line at its end

vars == <<pc, op, lock, readers, files, settled, got, notes, piece>>
store == <<pc, op, lock, readers, files, settled, got>>

None == "none"
\* The size of a file is where its last write ends; a write goes to its end.
SizeOf(content) == IF content = <<>> THEN 0 ELSE content[Len(content)].end
Written(content, size, whole) ==
    Append(content, [end |-> SizeOf(content) + size, whole |-> whole])
NoOp == [name |-> None, size |-> 0, append |-> FALSE]

Init ==
    /\ pc = [w \in Workers |-> "idle"] /\ op = [w \in Workers |-> NoOp]
    /\ lock = None /\ readers = {}
    /\ files = [n \in Names |-> <<>>] /\ settled = files
    /\ got = [w \in Workers |-> [content |-> <<>>, settled |-> <<>>]]
    /\ notes = <<>> /\ piece = 0

-----------------------------------------------------------------------------
Goto(w, where) == pc' = [pc EXCEPT ![w] = where]

\* Write looks at the size before it truncates anything. Mutation: it does not.
TooLargeUnseen(size) == FALSE
TooLarge(size) == size > Limit

\* The lock is free for a writer and for a reader.
WLock(w) == lock = None /\ readers = {} /\ lock' = w
RLock(w) == lock = None /\ readers' = readers \cup {w}

BeginWrite(w, n, size, append) ==
    /\ pc[w] = "idle" /\ ~ TooLarge(size) /\ Len(files[n]) < MaxParts
    /\ WLock(w)
    /\ op' = [op EXCEPT ![w] = [name |-> n, size |-> size, append |-> append]]
    /\ Goto(w, "open")
    /\ UNCHANGED <<readers, files, settled, got, notes, piece>>

\* The write is over and has left this content; as one step it would have left that.
Finish(w, content, atomic) ==
    /\ files' = [files EXCEPT ![op[w].name] = content]
    /\ settled' = [settled EXCEPT ![op[w].name] = atomic]
    /\ lock' = None
    /\ Goto(w, "idle") /\ op' = [op EXCEPT ![w] = NoOp]

\* fsx.OpenNoFollow fails on a link, and creates or truncates otherwise.
Open(w) ==
    LET n == op[w].name IN
    /\ pc[w] = "open"
    /\ IF n \in Links
       THEN Finish(w, files[n], settled[n])
       ELSE /\ files' = IF op[w].append THEN files ELSE [files EXCEPT ![n] = <<>>]
            /\ Goto(w, "check")
            /\ UNCHANGED <<op, lock, settled>>
    /\ UNCHANGED <<readers, got, notes, piece>>

\* writeChecked: the size that the file would have.
Check(w) ==
    LET n == op[w].name IN
    /\ pc[w] = "check"
    /\ IF TooLarge(op[w].size) \/ SizeOf(files[n]) + op[w].size > Limit
       THEN Finish(w, files[n], settled[n])
       ELSE Goto(w, "write") /\ UNCHANGED <<op, lock, files, settled>>
    /\ UNCHANGED <<readers, got, notes, piece>>

\* The write itself, whole or, when the disk fails, in part. A failed write is
\* reported and leaves what it leaves.
WriteString(w) ==
    LET n == op[w].name
        all == Written(files[n], op[w].size, TRUE)
        atomic == Written(IF op[w].append THEN settled[n] ELSE <<>>, op[w].size, TRUE)
    IN
    /\ pc[w] = "write"
    /\ \/ Finish(w, all, atomic)
       \/ \E cut \in 0 .. op[w].size - 1 :
             LET left == IF cut = 0 THEN files[n] ELSE Written(files[n], cut, FALSE)
             IN  Finish(w, left, left)
    /\ UNCHANGED <<readers, got, notes, piece>>

BeginRead(w, n) ==
    /\ pc[w] = "idle" /\ n \notin Links
    /\ RLock(w)
    /\ op' = [op EXCEPT ![w] = [name |-> n, size |-> 0, append |-> FALSE]]
    /\ Goto(w, "read")
    /\ UNCHANGED <<lock, files, settled, got, notes, piece>>
Read(w) ==
    /\ pc[w] = "read"
    /\ got' = [got EXCEPT ![w] = [content |-> files[op[w].name], settled |-> settled[op[w].name]]]
    /\ readers' = readers \ {w}
    /\ Goto(w, "idle") /\ op' = [op EXCEPT ![w] = NoOp]
    /\ UNCHANGED <<lock, files, settled, notes, piece>>

\* The process dies and comes back. A write under way leaves what it has done.
Crash ==
    /\ lock # None \/ readers # {}
    /\ pc' = [w \in Workers |-> "idle"] /\ lock' = None /\ readers' = {}
    /\ op' = [w \in Workers |-> NoOp]
    /\ settled' = files
    /\ UNCHANGED <<files, got, notes, piece>>

-----------------------------------------------------------------------------
(* The notes. The size of a record is that of its JSON, the newline comes on top.   *)
AddNote(size) ==
    /\ Len(notes) < MaxNotes
    /\ size + 1 <= RecordLimit
    /\ \/ notes' = Append(notes, [size |-> piece + size, whole |-> piece = 0])
          /\ piece' = 0
       \/ /\ piece < RecordLimit        \* bound: a longer piece changes nothing
          /\ \E cut \in 1 .. size : piece' = piece + cut
          /\ notes' = notes
    /\ UNCHANGED store

\* Search: an error if the scanner meets a line that does not fit, else the readable
\* notes, where a broken line is passed over.
SearchFails == piece >= RecordLimit \/ \E i \in DOMAIN notes : notes[i].size >= RecordLimit
Found == {i \in DOMAIN notes : notes[i].whole}

Next ==
    \/ \E w \in Workers :
          \/ \E n \in Names, size \in Sizes, append \in BOOLEAN : BeginWrite(w, n, size, append)
          \/ Open(w) \/ Check(w) \/ WriteString(w)
          \/ \E n \in Names : BeginRead(w, n)
          \/ Read(w)
    \/ Crash
    \/ \E size \in Sizes : AddNote(size)

Spec == Init /\ [][Next]_vars

-----------------------------------------------------------------------------
\* A write of a memory file happens as a whole or, refused for its size or for a link,
\* not at all; only a disk that fails or a process that dies leaves a part. A read
\* never sees one in between, and no file outgrows the limit. No note that was added
\* can make the search fail: it takes a write of a note that has broken off, at the end
\* of the file or under another note (automemory.go:83-133, memory.go:68-153).
MemoryIsAtomic ==
    /\ lock = None => files = settled
    /\ \A w \in Workers : got[w].content = got[w].settled
    /\ \A n \in Names : SizeOf(files[n]) <= Limit
    /\ SearchFails => piece > 0 \/ Found # DOMAIN notes
===============================================================================
