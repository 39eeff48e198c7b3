-------------------------------- MODULE Display --------------------------------
(***************************************************************************)
(* The threads behind the display, sw/scope.py on top of sw/pyfwcomm.pyx:  *)
(*                                                                         *)
(*   - FwComm's thread (a) reads recordings from the device into one of    *)
(*     two buffers of the reader and calls it back;                        *)
(*   - Reader (r) turns a recording into a display buffer from a pool and  *)
(*     leaves it for the GUI;                                              *)
(*   - the GUI thread (g, u) shows it, and hands it to a file writer when  *)
(*     the user says so.  Its file dialog dispatches events: updateData    *)
(*     runs inside saveData;                                               *)
(*   - file writers (w) write what was shown.                              *)
(*                                                                         *)
(* Display buffers are shared and counted.  A buffer whose count drops to  *)
(* zero returns to the pool.                                               *)
(*                                                                         *)
(* A recording is its age: how many were read since.  A step is what a     *)
(* thread does up to the next point where another one can see or change    *)
(* something of it; an augmented assignment is one step (true of CPython   *)
(* since 3.10, whose interpreter lock is not given up in between).         *)
(***************************************************************************)
EXTENDS Integers, Sequences, FiniteSets, SequencesExt

CONSTANTS
  Bufs,      (* the display buffers, 3 in the source                       *)
  Writers,   (* bound: file writers at a time                              *)
  MaxAge,    (* bound: recordings older than this are not told apart       *)
  NoBuf      (* None                                                       *)

ASSUME BufsAssumption ==
  /\ IsFiniteSet(Bufs) /\ NoBuf \notin Bufs
  /\ MaxAge \in Nat \ {0}

VARIABLES
  pool,       \* Reader._bufs
  refCnt,     \* Buf._refCnt
  y, hdr,     \* Buf._mem (what updateY copies) and Buf._hdr: ages
  rbuf,       \* Reader._rbuf: ages, Garbled while it is written
  bufhdr,     \* Reader._bufhdr: ages
  ridx,       \* Reader._ridx
  readDone,   \* Reader._readDone, a semaphore
  processed,  \* Reader._processedBuf
  lck,        \* Reader._lck is held by the reader thread
  fwBuf,      \* FwComm._buf: index of the buffer asked for, or none
  a,          \* FwComm's thread: [pc, buf, hdr, asleep]
  r,          \* Reader: [pc, b, idx, asleep]
  events,     \* haveData signals queued for the GUI; 2: two or more
  trgArm,     \* Scope._trgArm
  shown,      \* Scope._data
  u,          \* updateData: [pc, d]
  g,          \* the GUI's other work: [pc, buf]
  w,          \* file writers: [pc, buf]
  shownAge    \* history: age of what was shown last

fwVars   == <<fwBuf, a>>
readVars == <<rbuf, bufhdr, ridx, readDone>>
bufVars  == <<y, hdr>>
guiVars  == <<trgArm, shown, u, g, w>>
vars     == <<pool, refCnt, bufVars, readVars, processed, lck, fwVars, r, events,
              guiVars, shownAge>>

NoIdx   == 2          \* no buffer asked for
Garbled == -1         \* half written
Ages    == Garbled .. MaxAge

Init ==
  /\ pool = SetToSeq(Bufs)
  /\ refCnt = [b \in Bufs |-> 0]
  /\ y = [b \in Bufs |-> MaxAge] /\ hdr = [b \in Bufs |-> MaxAge]
  /\ rbuf = [i \in 0 .. 1 |-> MaxAge] /\ bufhdr = [i \in 0 .. 1 |-> MaxAge]
  /\ ridx = 0 /\ readDone = 0
  /\ processed = NoBuf /\ lck = FALSE
  /\ fwBuf = NoIdx
  /\ a = [pc |-> "idle", buf |-> NoIdx, hdr |-> MaxAge, asleep |-> FALSE]
  /\ r = [pc |-> "start", b |-> NoBuf, idx |-> 0, asleep |-> FALSE]
  /\ events = 0 /\ trgArm = "Continuous" /\ shown = NoBuf
  /\ u = [pc |-> "none", d |-> NoBuf]
  /\ g = [pc |-> "idle", buf |-> NoBuf]
  /\ w = [x \in Writers |-> [pc |-> "none", buf |-> NoBuf]]
  /\ shownAge = MaxAge
-----------------------------------------------------------------------------
(* The pool.                                                               *)

\* putBuf, under the lock of _bufAvail: cnt is what is left after decRef.
PutNoNotify(b) ==                               \* mutant: nobody is woken
  LET cnt == refCnt[b] - 1
  IN  /\ refCnt' = [refCnt EXCEPT ![b] = cnt]
      /\ pool' = IF cnt > 0 THEN pool ELSE Append(pool, b)
      /\ r' = r
Put(b) ==
  LET cnt == refCnt[b] - 1
  IN  /\ refCnt' = [refCnt EXCEPT ![b] = cnt]
      /\ pool' = IF cnt > 0 THEN pool ELSE Append(pool, b)
      /\ r' = IF cnt > 0 THEN r ELSE [r EXCEPT !.asleep = FALSE]

incRef(b) == refCnt' = [refCnt EXCEPT ![b] = @ + 1]
decRef(b) == refCnt' = [refCnt EXCEPT ![b] = @ - 1]

Older(x) == IF x \in {Garbled, MaxAge} THEN x ELSE x + 1
AllOlder(f) == [k \in DOMAIN f |-> Older(f[k])]
-----------------------------------------------------------------------------
(* FwComm's thread: pyThreadFunc and the callback Reader.__call__.         *)

\* Wait until a read is asked for, take it and begin to read.  A read that
\* fails or finds no data is tried again.
TakeRead ==
  /\ a.pc = "idle" /\ ~a.asleep
  /\ IF fwBuf = NoIdx
     THEN a' = [a EXCEPT !.asleep = TRUE] /\ UNCHANGED <<fwBuf, rbuf>>
     ELSE /\ a' = [a EXCEPT !.pc = "read", !.buf = fwBuf]
          /\ fwBuf' = NoIdx
          /\ rbuf' = [rbuf EXCEPT ![fwBuf] = Garbled]
  /\ UNCHANGED <<pool, refCnt, bufVars, bufhdr, ridx, readDone, processed, lck, r, events,
                 guiVars, shownAge>>

ReadEnd ==
  /\ a.pc = "read"
  /\ rbuf' = [AllOlder(rbuf) EXCEPT ![a.buf] = 0]
  /\ bufhdr' = AllOlder(bufhdr) /\ y' = AllOlder(y) /\ hdr' = AllOlder(hdr)
  /\ shownAge' = Older(shownAge)
  /\ a' = [a EXCEPT !.pc = "call", !.hdr = 0]
  /\ UNCHANGED <<pool, refCnt, ridx, readDone, processed, lck, fwBuf, r, events, guiVars>>

\* The header goes where the reader's index is by now.
Callback ==
  /\ a.pc = "call"
  /\ bufhdr' = [bufhdr EXCEPT ![ridx] = a.hdr]
  /\ readDone' = readDone + 1
  /\ a' = [a EXCEPT !.pc = "idle", !.buf = NoIdx, !.hdr = MaxAge]
  /\ UNCHANGED <<pool, refCnt, bufVars, rbuf, ridx, processed, lck, fwBuf, r, events, guiVars,
                 shownAge>>

FwThread == TakeRead \/ ReadEnd \/ Callback
-----------------------------------------------------------------------------
(* Reader.run.                                                             *)

\* The condition variable of FwComm: its thread goes on.
signal == [a EXCEPT !.asleep = FALSE]

\* FwComm.readAsync, if its thread has taken the last request.
fwReadAsync(i) == fwBuf' = i /\ a' = signal

readAsyncNewIndex(next) ==                      \* mutant: the index after the flip
  /\ ridx' = 1 - ridx
  /\ fwReadAsync(1 - ridx)
  /\ r' = [r EXCEPT !.pc = next, !.idx = 1 - ridx]
\* Reader.readAsync: ask for a read into the other buffer; it fails if FwComm
\* refuses.
readAsync(next) ==
  /\ ridx' = 1 - ridx
  /\ IF fwBuf # NoIdx
     THEN r' = [r EXCEPT !.pc = "failed"] /\ UNCHANGED fwVars
     ELSE fwReadAsync(1 - ridx) /\ r' = [r EXCEPT !.pc = next, !.idx = ridx]

FirstRead ==
  /\ r.pc = "start"
  /\ readAsync("getBuf")
  /\ UNCHANGED <<pool, refCnt, bufVars, rbuf, bufhdr, readDone, processed, lck, events, guiVars,
                 shownAge>>

getBuf ==
  /\ r.pc = "getBuf" /\ ~r.asleep
  /\ IF pool = <<>>
     THEN r' = [r EXCEPT !.asleep = TRUE] /\ UNCHANGED <<pool, refCnt>>
     ELSE /\ r' = [r EXCEPT !.pc = "acquire", !.b = Head(pool)]
          /\ pool' = Tail(pool) /\ incRef(Head(pool))
  /\ UNCHANGED <<bufVars, readVars, processed, lck, fwVars, events, guiVars, shownAge>>

FlipPolls ==                                    \* mutant: does not wait
  /\ r.pc = "acquire"
  /\ readDone' = IF readDone > 0 THEN readDone - 1 ELSE 0
  /\ readAsync("updateY")
  /\ UNCHANGED <<pool, refCnt, bufVars, rbuf, bufhdr, processed, lck, events, guiVars, shownAge>>
Flip ==
  /\ r.pc = "acquire" /\ readDone > 0
  /\ readDone' = readDone - 1
  /\ readAsync("updateY")
  /\ UNCHANGED <<pool, refCnt, bufVars, rbuf, bufhdr, processed, lck, events, guiVars, shownAge>>

\* One channel's samples and the header; the axis is computed from what the
\* GUI has set by then.
updateY ==
  /\ r.pc = "updateY"
  /\ y' = [y EXCEPT ![r.b] = rbuf[r.idx]]
  /\ hdr' = [hdr EXCEPT ![r.b] = bufhdr[r.idx]]
  /\ r' = [r EXCEPT !.pc = "replace"]
  /\ UNCHANGED <<pool, refCnt, readVars, processed, lck, fwVars, events, guiVars, shownAge>>

\* What the GUI did not fetch is replaced.  The lock is held from here on...
Replace ==
  /\ r.pc = "replace"
  /\ lck' = TRUE
  /\ IF processed = NoBuf
     THEN r' = [r EXCEPT !.pc = "publish"] /\ UNCHANGED <<pool, refCnt>>
     ELSE LET cnt == refCnt[processed] - 1
          IN  /\ refCnt' = [refCnt EXCEPT ![processed] = cnt]
              /\ pool' = IF cnt > 0 THEN pool ELSE Append(pool, processed)
              /\ r' = [r EXCEPT !.pc = "publish"]
  /\ UNCHANGED <<bufVars, readVars, processed, fwVars, events, guiVars, shownAge>>

\* ...to here.
Publish ==
  /\ r.pc = "publish"
  /\ processed' = r.b /\ lck' = FALSE
  /\ r' = [r EXCEPT !.pc = "notify", !.b = NoBuf]
  /\ UNCHANGED <<pool, refCnt, bufVars, readVars, fwVars, events, guiVars, shownAge>>

notify ==
  /\ r.pc = "notify"
  /\ events' = IF events = 2 THEN 2 ELSE events + 1
  /\ r' = [r EXCEPT !.pc = "getBuf"]
  /\ UNCHANGED <<pool, refCnt, bufVars, readVars, processed, lck, fwVars, guiVars, shownAge>>

ReaderThread ==
  FirstRead \/ getBuf \/ Flip \/ updateY \/ Replace \/ Publish \/ notify
-----------------------------------------------------------------------------
(* The GUI thread.  Between its steps other threads run, but no other      *)
(* part of the GUI unless it dispatches events (g.pc "idle" and "dialog"). *)

Dispatching == u.pc = "none" /\ g.pc \in {"idle", "dialog"}

\* updateData is called for a haveData signal...
updateData ==
  /\ Dispatching /\ events > 0
  /\ events' \in IF events = 2 THEN {1, 2} ELSE {0}
  /\ u' = [u EXCEPT !.pc = "get"]
  /\ UNCHANGED <<pool, refCnt, bufVars, readVars, processed, lck, fwVars, r, trgArm, shown, g, w,
                 shownAge>>

\* ...and fetches what is there, when the reader does not hold the lock.
getData ==
  /\ u.pc = "get" /\ ~lck
  /\ processed' = NoBuf
  /\ u' = IF processed = NoBuf THEN [u EXCEPT !.pc = "none"] ELSE [pc |-> "got", d |-> processed]
  /\ UNCHANGED <<pool, refCnt, bufVars, readVars, lck, fwVars, r, events, trgArm, shown, g, w,
                 shownAge>>

\* The new data are put back if the display is off, the old ones if not.
DropOrReplace ==
  /\ u.pc = "got"
  /\ IF trgArm = "Off"
     THEN u' = [pc |-> "none", d |-> NoBuf] /\ Put(u.d)
     ELSE /\ u' = [u EXCEPT !.pc = "set"]
          /\ IF shown = NoBuf THEN UNCHANGED <<pool, refCnt, r>> ELSE Put(shown)
  /\ UNCHANGED <<bufVars, readVars, processed, lck, fwVars, events, trgArm, shown, g, w, shownAge>>

Show ==
  /\ u.pc = "set"
  /\ shown' = u.d /\ shownAge' = y[u.d]
  /\ u' = [pc |-> "none", d |-> NoBuf]
  /\ trgArm' = IF trgArm = "Single" THEN "Off" ELSE trgArm
  /\ UNCHANGED <<pool, refCnt, bufVars, readVars, processed, lck, fwVars, r, events, g, w>>

\* TrgArmMenu; not while the dialog, which is modal, is open.
SetArm(arm) ==
  /\ Dispatching /\ g.pc = "idle"
  /\ trgArm' = arm
  /\ UNCHANGED <<pool, refCnt, bufVars, readVars, processed, lck, fwVars, r, events, shown, u, g,
                 w, shownAge>>

\* saveData up to the dialog: enters BufMgr.
saveData ==
  /\ Dispatching /\ g.pc = "idle" /\ shown # NoBuf
  /\ incRef(shown)
  /\ g' = [pc |-> "dialog", buf |-> shown]
  /\ UNCHANGED <<pool, bufVars, readVars, processed, lck, fwVars, r, events, trgArm, shown, u, w,
                 shownAge>>

NewWriterNoRef(x) ==                            \* mutant: no reference for the thread
  /\ Dispatching /\ g.pc = "dialog" /\ w[x].pc = "none"
  /\ w' = [w EXCEPT ![x] = [pc |-> "start", buf |-> g.buf]]
  /\ g' = [g EXCEPT !.pc = "exit"]
  /\ UNCHANGED <<pool, refCnt, bufVars, readVars, processed, lck, fwVars, r, events, trgArm,
                 shown, u, shownAge>>
\* A file name was given: FileWriter is created, with a reference, and started.
NewWriter(x) ==
  /\ Dispatching /\ g.pc = "dialog" /\ w[x].pc = "none"
  /\ incRef(g.buf)
  /\ w' = [w EXCEPT ![x] = [pc |-> "start", buf |-> g.buf]]
  /\ g' = [g EXCEPT !.pc = "exit"]
  /\ UNCHANGED <<pool, bufVars, readVars, processed, lck, fwVars, r, events, trgArm, shown, u,
                 shownAge>>

\* saveData leaves BufMgr, with a writer or without.
SaveExit ==
  /\ \/ g.pc = "exit"
     \/ Dispatching /\ g.pc = "dialog"
  /\ Put(g.buf)
  /\ g' = [pc |-> "idle", buf |-> NoBuf]
  /\ UNCHANGED <<bufVars, readVars, processed, lck, fwVars, events, trgArm, shown, u, w, shownAge>>

Gui ==
  \/ updateData \/ getData \/ DropOrReplace \/ Show
  \/ \E arm \in {"Off", "Single", "Continuous"} : SetArm(arm)
  \/ saveData \/ SaveExit
  \/ \E x \in Writers : NewWriter(x)
-----------------------------------------------------------------------------
(* FileWriter.run.                                                         *)

WriterEnter(x) ==
  /\ w[x].pc = "start"
  /\ incRef(w[x].buf)
  /\ w' = [w EXCEPT ![x].pc = "entered"]
  /\ UNCHANGED <<pool, bufVars, readVars, processed, lck, fwVars, r, events, trgArm, shown, u, g,
                 shownAge>>

WriterHandOverKeeps(x) ==                       \* mutant: the creator's reference stays
  /\ w[x].pc = "entered"
  /\ w' = [w EXCEPT ![x].pc = "writing"]
  /\ UNCHANGED <<pool, refCnt, bufVars, readVars, processed, lck, fwVars, r, events, trgArm, shown,
                 u, g, shownAge>>
\* The reference the creator took is given up.
WriterHandOver(x) ==
  /\ w[x].pc = "entered"
  /\ decRef(w[x].buf)
  /\ w' = [w EXCEPT ![x].pc = "writing"]
  /\ UNCHANGED <<pool, bufVars, readVars, processed, lck, fwVars, r, events, trgArm, shown, u, g,
                 shownAge>>

\* The file is written, or that fails; either way the buffer is put.  (The
\* handle of the thread that errorDialog gives up then is not modelled.)
WriterExit(x) ==
  /\ w[x].pc = "writing"
  /\ Put(w[x].buf)
  /\ w' = [w EXCEPT ![x] = [pc |-> "none", buf |-> NoBuf]]
  /\ UNCHANGED <<bufVars, readVars, processed, lck, fwVars, events, trgArm, shown, u, g, shownAge>>

Writer(x) == WriterEnter(x) \/ WriterHandOver(x) \/ WriterExit(x)
-----------------------------------------------------------------------------
Next == FwThread \/ ReaderThread \/ Gui \/ \E x \in Writers : Writer(x)

Spec == Init /\ [][Next]_vars

\* The threads run; an event of the GUI is processed when its turn comes.
\* Recordings are made.  Nothing is assumed of the user.
FairSpec ==
  /\ Spec
  /\ WF_vars(ReaderThread)
  /\ WF_vars(FwThread)
  /\ SF_vars(updateData) /\ SF_vars(getData) /\ WF_vars(DropOrReplace \/ Show)
  /\ WF_vars(g.pc = "exit" /\ SaveExit)
  /\ \A x \in Writers : WF_vars(Writer(x))
-----------------------------------------------------------------------------
(* Properties.                                                             *)

\* Who still uses a buffer besides the reader.  Between DropOrReplace and
\* Show the GUI has given up what it showed.
Users(b) ==
  {x \in Writers : w[x].buf = b}
  \union (IF processed = b /\ ~lck THEN {"processed"} ELSE {})
  \union (IF u.d = b THEN {"updateData"} ELSE {})
  \union (IF shown = b /\ u.pc # "set" THEN {"shown"} ELSE {})
  \union (IF g.buf = b THEN {"saveData"} ELSE {})

Pooled(b) == \E i \in DOMAIN pool : pool[i] = b

\* "hold a reference - while the filename dialog is spinning events are
\* dispatched and self._data may update": no buffer is free or filled with
\* another recording while it waits to be shown, is shown, or is written to a
\* file.
NotReused == \A b \in Bufs : Pooled(b) \/ r.b = b => Users(b) = {}

\* No buffer is lost: what nobody uses any more is in the pool, once.
NoLeak ==
  \A b \in Bufs : Users(b) = {} /\ r.b # b =>
    Cardinality({i \in DOMAIN pool : pool[i] = b}) = 1

\* "flip buffer": the samples of a display buffer were complete when they were
\* copied, the next read does not write over them, and the over-range bits
\* next to them are theirs.
HdrOfData ==
  \A b \in Bufs : Users(b) # {} => y[b] # Garbled /\ y[b] = hdr[b]

\* What is shown is newer than what was shown before, whatever was dropped
\* in between, however long the dialog was open.
NewestFirst ==
  [][u.pc = "set" /\ u'.pc = "none" => y[u.d] < shownAge \/ shownAge = MaxAge]_vars

\* The reader never waits for a buffer for ever, not even while the user
\* thinks about a file name: waiting for display, displayed, and held by the
\* dialog are three, all there are.  And a display armed for a single recording
\* shows one.  (Reader.getBuf, TrgArmMenu)
GoesOn ==
  /\ r.asleep ~> ~r.asleep
  /\ trgArm = "Single" ~> trgArm # "Single"
=============================================================================
