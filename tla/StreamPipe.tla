----------------------------- MODULE StreamPipe -----------------------------
(***************************************************************************)
(* doStreamPipe (stream.go): two goroutines copy between a client's socket *)
(* c and a libp2p stream s, in the direction the client reads ("down",     *)
(* from s to c) and in the direction it writes ("up", from c to s).  Each  *)
(* ends on end of file or on an error, resets the stream after an error,   *)
(* and closes what it was writing to.  That wakes the other one when it is *)
(* reading, but not when it is blocked in a Write the other end does not   *)
(* make room for.  Closing a libp2p stream closes both its directions      *)
(* (external).                                                             *)
(***************************************************************************)
EXTENDS Naturals

CONSTANTS
    MaxChunks,      \* bound: chunks each end writes
    Buffer          \* chunks on the way to an end that has not read them

ASSUME PipeAssumption == MaxChunks \in Nat \ {0} /\ Buffer \in Nat \ {0}

VARIABLES
    clientEnd,  \* the client's end of the socket: "open", "halfClosed" (it will write
                \* no more) or "closed"
    remoteEnd,  \* the remote peer's end of the stream: "open", "halfClosed" or "reset"
    c,          \* the daemon's end of the socket: "open" or "closed"
    s,          \* the daemon's end of the stream: "open", "closed" or "reset"
    wrote,      \* chunks written by the source of each direction
    copied,     \* chunks the daemon has copied in each direction
    consumed,   \* chunks the destination of each direction has read
    pipe        \* the goroutine of each direction: "reading", "writing" (it holds a
                \* chunk) or "done"

pipeVars == <<clientEnd, remoteEnd, c, s, wrote, copied, consumed, pipe>>
ends == <<clientEnd, remoteEnd>>

Dirs == {"up", "down"}

Other(d) == IF d = "up" THEN "down" ELSE "up"

PipeInit ==
    /\ clientEnd = "open" /\ remoteEnd = "open"
    /\ c = "open" /\ s = "open"
    /\ wrote = [d \in Dirs |-> 0]
    /\ copied = [d \in Dirs |-> 0]
    /\ consumed = [d \in Dirs |-> 0]
    /\ pipe = [d \in Dirs |-> "reading"]

-----------------------------------------------------------------------------
(***************************************************************************)
(* The two ends.                                                           *)
(***************************************************************************)
ClientWrites ==
    /\ clientEnd = "open" /\ c = "open"
    /\ wrote["up"] < MaxChunks
    /\ wrote' = [wrote EXCEPT !["up"] = @ + 1]
    /\ UNCHANGED <<ends, c, s, copied, consumed, pipe>>

ClientTakes ==
    /\ clientEnd # "closed"
    /\ consumed["down"] < copied["down"]
    /\ consumed' = [consumed EXCEPT !["down"] = @ + 1]
    /\ UNCHANGED <<ends, c, s, wrote, copied, pipe>>

ClientHalfCloses ==
    /\ clientEnd = "open"
    /\ clientEnd' = "halfClosed"
    /\ UNCHANGED <<remoteEnd, c, s, wrote, copied, consumed, pipe>>

ClientCloses ==
    /\ clientEnd # "closed"
    /\ clientEnd' = "closed"
    /\ UNCHANGED <<remoteEnd, c, s, wrote, copied, consumed, pipe>>

RemoteWrites ==
    /\ remoteEnd = "open" /\ s = "open"
    /\ wrote["down"] < MaxChunks
    /\ wrote' = [wrote EXCEPT !["down"] = @ + 1]
    /\ UNCHANGED <<ends, c, s, copied, consumed, pipe>>

RemoteTakes ==
    /\ remoteEnd # "reset" /\ s # "reset"
    /\ consumed["up"] < copied["up"]
    /\ consumed' = [consumed EXCEPT !["up"] = @ + 1]
    /\ UNCHANGED <<ends, c, s, wrote, copied, pipe>>

RemoteHalfCloses ==
    /\ remoteEnd = "open"
    /\ remoteEnd' = "halfClosed"
    /\ UNCHANGED <<clientEnd, c, s, wrote, copied, consumed, pipe>>

RemoteResets ==
    /\ remoteEnd # "reset"
    /\ remoteEnd' = "reset"
    /\ UNCHANGED <<clientEnd, c, s, wrote, copied, consumed, pipe>>

-----------------------------------------------------------------------------
(***************************************************************************)
(* Reading and writing from the daemon's side.                             *)
(***************************************************************************)
Pending(d) == copied[d] < wrote[d]

Room(d) == copied[d] - consumed[d] < Buffer

Readable(d) == IF d = "up" THEN c = "open" ELSE s = "open" /\ remoteEnd # "reset"

Writable(d) == IF d = "up" THEN s = "open" /\ remoteEnd # "reset"
               ELSE c = "open" /\ clientEnd # "closed"

EndOfFile(d) ==
    /\ Readable(d)
    /\ ~Pending(d)
    /\ IF d = "up" THEN clientEnd # "open" ELSE remoteEnd = "halfClosed"

\* The client closed its socket with something unread, or on its way: "connection reset
\* by peer".
PeerReset(d) == d = "up" /\ clientEnd = "closed" /\ consumed["down"] < wrote["down"]

\* dst.Close(); a stream that was reset stays reset.
CloseDst(d, afterError) ==
    /\ c' = IF d = "down" THEN "closed" ELSE c
    /\ s' = IF afterError \/ s = "reset" THEN "reset"
            ELSE IF d = "up" THEN "closed" ELSE s

\* io.Copy reads a chunk,
ReadChunk(d) ==
    /\ pipe[d] = "reading"
    /\ Readable(d) /\ Pending(d)
    /\ pipe' = [pipe EXCEPT ![d] = "writing"]
    /\ UNCHANGED <<ends, c, s, wrote, copied, consumed>>

\* and writes it when there is room.
WriteChunk(d) ==
    /\ pipe[d] = "writing"
    /\ Writable(d) /\ Room(d)
    /\ copied' = [copied EXCEPT ![d] = @ + 1]
    /\ pipe' = [pipe EXCEPT ![d] = "reading"]
    /\ UNCHANGED <<ends, c, s, wrote, consumed>>

\* Variant: end of file in one direction closes nothing.
EndsOpen(d) ==
    /\ pipe[d] = "reading"
    /\ EndOfFile(d)
    /\ pipe' = [pipe EXCEPT ![d] = "done"]
    /\ UNCHANGED <<ends, c, s, wrote, copied, consumed>>

\* Variant: end of file is seen before the last chunk was copied.
EndsEarly(d) ==
    /\ pipe[d] = "reading"
    /\ IF d = "up" THEN clientEnd # "open" ELSE remoteEnd = "halfClosed"
    /\ pipe' = [pipe EXCEPT ![d] = "done"]
    /\ CloseDst(d, FALSE)
    /\ UNCHANGED <<ends, wrote, copied, consumed>>

\* io.Copy reaches the end of its source.
Ends(d) ==
    /\ pipe[d] = "reading"
    /\ EndOfFile(d)
    /\ pipe' = [pipe EXCEPT ![d] = "done"]
    /\ CloseDst(d, FALSE)
    /\ UNCHANGED <<ends, wrote, copied, consumed>>

\* io.Copy fails: the source was closed here or reset, or the chunk cannot be written.
Fails(d) ==
    /\ \/ pipe[d] = "reading" /\ (~Readable(d) \/ PeerReset(d))
       \/ pipe[d] = "writing" /\ ~Writable(d)
    /\ pipe' = [pipe EXCEPT ![d] = "done"]
    /\ CloseDst(d, TRUE)
    /\ UNCHANGED <<ends, wrote, copied, consumed>>

PipeStep(d) == ReadChunk(d) \/ WriteChunk(d) \/ Ends(d) \/ Fails(d)

BothDone == \A d \in Dirs : pipe[d] = "done"

\* wg.Wait() has returned.
Done == BothDone /\ UNCHANGED pipeVars

PipeNext ==
    \/ ClientWrites \/ ClientTakes \/ ClientHalfCloses \/ ClientCloses
    \/ RemoteWrites \/ RemoteTakes \/ RemoteHalfCloses \/ RemoteResets
    \/ \E d \in Dirs : PipeStep(d)
    \/ Done

PipeSpec == PipeInit /\ [][PipeNext]_pipeVars

(***************************************************************************)
(* Both goroutines run.  Neither end has to write, read, close or reset.   *)
(***************************************************************************)
FairPipeSpec == PipeSpec /\ \A d \in Dirs : WF_pipeVars(PipeStep(d))

-----------------------------------------------------------------------------
(***************************************************************************)
(* The values of the ends, the chunk counters and the two copying          *)
(* goroutines of doStreamPipe; nobody reads what was not copied.           *)
(***************************************************************************)
PipeTypeOK ==
    /\ clientEnd \in {"open", "halfClosed", "closed"}
    /\ remoteEnd \in {"open", "halfClosed", "reset"}
    /\ c \in {"open", "closed"} /\ s \in {"open", "closed", "reset"}
    /\ wrote \in [Dirs -> 0..MaxChunks]
    /\ copied \in [Dirs -> 0..MaxChunks]
    /\ consumed \in [Dirs -> 0..MaxChunks]
    /\ pipe \in [Dirs -> {"reading", "writing", "done"}]
    /\ \A d \in Dirs : consumed[d] <= copied[d] /\ copied[d] <= wrote[d]

(***************************************************************************)
(* A client that keeps its socket open is handed all the remote wrote      *)
(* before it half-closed the stream: the pipe down ends short of it only   *)
(* if the client closed its socket or half of it, or the remote reset the  *)
(* stream.  A client that only closed its writing half loses what comes    *)
(* after, since s.Close() (stream.go:24) closes both directions: there the *)
(* socket is not "as if it were the stream" (specs/CONTROL.md:177).        *)
(***************************************************************************)
NothingLostDown ==
    pipe["down"] = "done" /\ clientEnd = "open" /\ remoteEnd # "reset" => ~Pending("down")

(***************************************************************************)
(* The stream is handed all a client wrote before it hung up, unless the   *)
(* remote stopped talking first, or the client has not read all that was   *)
(* meant for it: the failure to pass that on resets the stream under the   *)
(* other direction.                                                        *)
(***************************************************************************)
NothingLostUp ==
    pipe["up"] = "done" /\ remoteEnd = "open" /\ consumed["down"] = wrote["down"] =>
      ~Pending("up")

(***************************************************************************)
(* What holds of a pipe at any moment: a direction that is done has lost   *)
(* nothing, but for what its ends gave up.                                 *)
(***************************************************************************)
PipeInv == PipeTypeOK /\ NothingLostDown /\ NothingLostUp

\* In a Write that only the other end can let through.
Blocked(d) == pipe[d] = "writing" /\ Writable(d) /\ ~Room(d)

(***************************************************************************)
(* wg.Wait returns once one direction is done, except when the other       *)
(* goroutine stays for ever in a Write to an end that neither reads nor    *)
(* goes away: closing its source does not wake it.  It never stays in a    *)
(* Read.                                                                   *)
(***************************************************************************)
OneEndsBoth ==
    \A d \in Dirs : (pipe[d] = "done" ~> BothDone) \/ <>[]Blocked(Other(d))
=============================================================================
