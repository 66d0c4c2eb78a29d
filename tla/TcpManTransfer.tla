--------------------------- MODULE TcpManTransfer ---------------------------
(***************************************************************************)
(* The file transfer of src/sockman/CPPSocket/TCPMan.cpp: "sockman client" *)
(* runs TCP_MAN::send_file, "sockman server" runs TCP_MAN::receive_file,   *)
(* over one TCP connection that both have opened already.  TCP::send_file  *)
(* and TCP::receive_file (TCP.cpp:102-169) are the same protocol.          *)
(*                                                                         *)
(* The sender announces the size of the file.  For each part (a chunk of   *)
(* Chunk bytes, and at the end the remainder, if any) the receiver sends   *)
(* one byte, the sender waits for it and sends the part, and the receiver  *)
(* writes its buffer to the copy.  Neither looks at what recv() returned:  *)
(* it may return less than was asked for, and 0 when the other process is  *)
(* gone.  Each process ends when its function returned, so its socket is   *)
(* closed then.                                                            *)
(***************************************************************************)
EXTENDS Naturals, SequencesExt

CONSTANTS
  Chunk,          \* SOCKET_MAX_BUFFER_LEN
  Byte,           \* the bytes of a file
  Files,          \* the files that may be sent
  JUNK,           \* stands for the contents of an uninitialised byte
  ShortReads,     \* TRUE when recv() may return a part of what was sent
  MayDie          \* TRUE when a process may be killed, or fail to open its file

ASSUME ChunkAssumption == Chunk \in Nat \ {0}
ASSUME FilesAssumption == JUNK \notin Byte /\ Files \subseteq Seq(Byte)
ASSUME ModeAssumption == ShortReads \in BOOLEAN /\ MayDie \in BOOLEAN

VARIABLES
  file,           \* the file that is sent
  s_pc,           \* the sender
  s_i,            \* parts it sent
  header,         \* the size, while it is on its way
  down,           \* bytes on their way to the receiver
  up,             \* synchronisation bytes on their way to the sender
  r_pc,           \* the receiver
  r_size,         \* file_size as it received it
  r_i,            \* parts it wrote
  chunk,          \* its buffer
  out             \* what it wrote to the copy

sVars == <<s_pc, s_i>>
rVars == <<r_pc, r_size, r_i, chunk, out>>
vars == <<file, sVars, header, down, up, rVars>>

\* "failed": an exception, or SIGPIPE; "dead": killed.
Ended == {"done", "failed", "dead"}

Init ==
  /\ file \in Files
  /\ s_pc = "size" /\ s_i = 0
  /\ header = {} /\ down = <<>> /\ up = 0
  /\ r_pc = "size" /\ r_size = 0 /\ r_i = 0
  /\ chunk = [j \in 1..Chunk |-> JUNK]
  /\ out = <<>>

-----------------------------------------------------------------------------
(* The loop over the chunks, and the remainder *)

\* Mutant: the test for a remainder is forgotten.
PartsNoRemainder(total) == total \div Chunk

\* total / Chunk whole chunks, and one part more if a remainder is left.
Parts(total) ==
  total \div Chunk + IF total % Chunk # 0 THEN 1 ELSE 0

\* The length of part i, counted from 0.
Part(total, i) == IF i < total \div Chunk THEN Chunk ELSE total % Chunk

\* Where a side that has handled i parts goes on.
Proceed(total, i) == IF i < Parts(total) THEN "sync" ELSE "done"

-----------------------------------------------------------------------------
(* The sender: TCP_MAN::send_file *)

\* The other end was closed with data unread, or was sent something afterwards:
\* its host answers with a reset, now or later.
SenderReset == r_pc \in Ended /\ (header # {} \/ down # <<>>)

SendSize ==
  /\ s_pc = "size"
  /\ header' = {Len(file)}
  /\ s_pc' = Proceed(Len(file), 0)
  /\ UNCHANGED <<s_i, down, up>>

\* Mutant: the sender does not wait for the synchronisation.
AwaitNothing ==
  /\ s_pc = "sync"
  /\ s_pc' = "chunk"
  /\ UNCHANGED <<s_i, header, down, up>>

\* Mutant: a recv() that returned 0 is tried again.
AwaitSyncAgain ==
  /\ s_pc = "sync"
  /\ up > 0 /\ up' = up - 1
  /\ s_pc' = "chunk"
  /\ UNCHANGED <<s_i, header, down>>

\* receive(&sync): 0 at the end of the file is taken for a byte.
AwaitSync ==
  /\ s_pc = "sync"
  /\ \/ up > 0 /\ up' = up - 1 /\ s_pc' = "chunk"
     \/ up = 0 /\ r_pc \in Ended /\ s_pc' = "chunk" /\ UNCHANGED up
     \/ SenderReset /\ s_pc' = "failed" /\ UNCHANGED up
  /\ UNCHANGED <<s_i, header, down>>

\* fp.read() and send() of the next part.
SendPart ==
  /\ s_pc = "chunk"
  /\ \/ /\ down' = down \o SubSeq(file, s_i * Chunk + 1,
                                        s_i * Chunk + Part(Len(file), s_i))
        /\ s_i' = s_i + 1
        /\ s_pc' = Proceed(Len(file), s_i + 1)
     \/ /\ SenderReset
        /\ s_pc' = "failed"
        /\ UNCHANGED <<down, s_i>>
  /\ UNCHANGED <<header, up>>

\* The file cannot be opened, or the process is killed.
SenderDies ==
  /\ MayDie
  /\ s_pc \notin Ended
  /\ s_pc' = "dead"
  /\ UNCHANGED <<s_i, header, down, up>>

Sender ==
  /\ SendSize \/ AwaitSync \/ SendPart
  /\ UNCHANGED <<file, rVars>>

-----------------------------------------------------------------------------
(* The receiver: TCP_MAN::receive_file *)

\* The sender is gone and left or was sent synchronisation bytes.
ReceiverReset == s_pc \in Ended /\ up > 0

\* receive(&file_size): at the end of the file it keeps the value it had.
ReceiveSize ==
  /\ r_pc = "size"
  /\ \/ r_size' \in header
     \/ header = {} /\ s_pc \in Ended /\ r_size' \in {Len(f): f \in Files}
  /\ header' = {}
  /\ r_pc' = Proceed(r_size', 0)
  /\ UNCHANGED <<r_i, chunk, out, down, up>>

\* Mutant: no synchronisation for the remainder, on this side only.
SendSyncForChunks ==
  /\ r_pc = "sync"
  /\ up' = IF Part(r_size, r_i) = Chunk THEN up + 1 ELSE up
  /\ r_pc' = "chunk"
  /\ UNCHANGED <<r_size, r_i, chunk, out, header, down>>

\* send(&sync)
SendSync ==
  /\ r_pc = "sync"
  /\ \/ up' = up + 1 /\ r_pc' = "chunk"
     \/ ReceiverReset /\ r_pc' = "failed" /\ UNCHANGED up
  /\ UNCHANGED <<r_size, r_i, chunk, out, header, down>>

\* How many bytes recv() may return, out of those asked for.
Read(asked) ==
  LET most == Min({asked, Len(down)})
  IN IF ShortReads THEN 1..most ELSE {most} \ {0}

\* The buffer after n bytes were received into it: the rest stays as it was.
Filled(n) == [j \in 1..Chunk |-> IF j <= n THEN down[j] ELSE chunk[j]]

\* Mutant: only what was received is written.
ReceiveAndWriteWhatCame ==
  LET asked == Part(r_size, r_i)
  IN \E n \in Read(asked):
       /\ r_pc = "chunk"
       /\ chunk' = Filled(n)
       /\ out' = out \o SubSeq(chunk', 1, n)
       /\ down' = SubSeq(down, n + 1, Len(down))
       /\ r_i' = r_i + 1
       /\ r_pc' = Proceed(r_size, r_i + 1)
       /\ UNCHANGED <<r_size, header, up>>

\* receive(chunk) and fp.write(chunk): the whole part is written, whatever the
\* number of bytes that came, 0 at the end of the file included.
ReceiveAndWrite ==
  LET asked == Part(r_size, r_i)
  IN /\ r_pc = "chunk"
     /\ \/ \E n \in Read(asked) \cup
                    IF down = <<>> /\ s_pc \in Ended THEN {0} ELSE {}:
             /\ chunk' = Filled(n)
             /\ out' = out \o SubSeq(chunk', 1, asked)
             /\ down' = SubSeq(down, n + 1, Len(down))
             /\ r_i' = r_i + 1
             /\ r_pc' = Proceed(r_size, r_i + 1)
        \/ /\ ReceiverReset
           /\ r_pc' = "failed"
           /\ UNCHANGED <<chunk, out, down, r_i>>
     /\ UNCHANGED <<r_size, header, up>>

ReceiverDies ==
  /\ MayDie
  /\ r_pc \notin Ended
  /\ r_pc' = "dead"
  /\ UNCHANGED <<r_size, r_i, chunk, out, header, down, up>>

Receiver ==
  /\ ReceiveSize \/ SendSync \/ ReceiveAndWrite
  /\ UNCHANGED <<file, sVars>>

Deaths ==
  \/ SenderDies /\ UNCHANGED <<file, rVars>>
  \/ ReceiverDies /\ UNCHANGED <<file, sVars>>

-----------------------------------------------------------------------------
Next == Sender \/ Receiver \/ Deaths

Spec == Init /\ [][Next]_vars

\* Both processes run whenever they can; nothing makes them die.
FairSpec == Spec /\ WF_vars(Sender) /\ WF_vars(Receiver)

-----------------------------------------------------------------------------
\* The counters stay in the number of parts of the file, the queues in the size
\* of the file, whatever recv() returns and whoever dies.
TypeOK ==
  /\ file \in Files
  /\ down \in Seq(Byte)
  /\ chunk \in [1..Chunk -> Byte \cup {JUNK}]
  /\ out \in Seq(Byte \cup {JUNK})
  /\ s_pc \in {"size", "sync", "chunk"} \cup Ended
  /\ s_i \in 0..Parts(Len(file))
  /\ header \in SUBSET {Len(file)}
  /\ Len(down) <= Len(file)
  /\ up \in 0..Parts(r_size)
  /\ r_pc \in {"size", "sync", "chunk"} \cup Ended
  /\ r_size \in {0} \cup {Len(f): f \in Files}
  /\ r_i \in 0..Parts(r_size)
  /\ Len(out) <= r_size

\* The parts the receiver has asked for.
Asked == r_i + IF r_pc = "chunk" THEN 1 ELSE 0

\* The sender never sends a part that was not asked for, so that at most one
\* chunk waits at a receiver that takes whole chunks: the two loops
\* (TCPMan.cpp:75-89, 111-125) advance together as long as the receiver runs.
LockStep ==
  r_pc \notin Ended =>
    /\ s_i + (IF s_pc = "chunk" THEN 1 ELSE 0) + up <= Asked
    /\ ~ShortReads => Len(down) <= Chunk

\* The transfer is a FileCopy: nothing is written that is not the next piece of
\* the file, and the receiver does not return before the copy is whole
\* (TCPMan.cpp:108-127).
Copy == INSTANCE FileCopy WITH copy <- out, finished <- r_pc = "done"
CopySpec == Copy!Spec

\* When nobody is killed both functions return (TCPMan.cpp:92, 128).
BothReturn == <>(s_pc = "done" /\ r_pc = "done")

\* The copy has the size of the file when the receiver returns, though not its
\* contents, even when recv() splits the parts and whoever is killed, unless the
\* sender is before its first part is sent (TCPMan.cpp:108-124).
SizeKept == r_pc = "done" /\ (s_pc = "dead" => s_i > 0) => Len(out) = Len(file)

\* A part that the sender sent before it was killed is in its place in the copy,
\* whatever the receiver wrote after it (TCPMan.cpp:114-116).
SentPartsAreRight ==
  \A j \in DOMAIN out: j <= s_i * Chunk => out[j] = file[j]

\* Nobody waits for ever for a process that is gone, wherever it was killed: the
\* ignored 0 of recv() ends each loop (TCPMan.cpp:77, 85, 114, 122).  As long as
\* nobody is killed the receiver returns without an exception, however recv()
\* splits the parts.
BothEnd ==
  <>(/\ s_pc \in Ended /\ r_pc \in Ended
     /\ s_pc # "dead" /\ r_pc # "dead" => r_pc = "done")

=============================================================================
