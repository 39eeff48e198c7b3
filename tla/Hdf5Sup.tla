-------------------------------- MODULE Hdf5Sup --------------------------------
(***************************************************************************)
(* sw/hdf5Sup.c as bbcli.c uses it: a buffer that was read is stored in a  *)
(* file, the data first, then what describes them. Every call of the       *)
(* library may fail. The program is a list of steps: those that "go on"    *)
(* are done while nothing failed, those of a cleanup in any case. Closing  *)
(* what is not open is left out by the code, and does nothing here.        *)
(***************************************************************************)
EXTENDS Naturals, Sequences, SequencesExt, Functions

CONSTANTS
  ScopeKeys,    (* what a board may not be able to tell of its channels    *)
  Recordings,     (* [ssiz, prec, numChannels, comment, known: the keys it   *)
                (* can tell, in the order they are stored]                 *)
  MaxH5Faults   (* calls that fail in a behaviour                          *)

ASSUME Hdf5Assumption ==
  /\ MaxH5Faults \in Nat
  /\ \A r \in Recordings : Range(r.known) \subseteq ScopeKeys /\ r.prec <= 8 * r.ssiz

VARIABLES
  recording,      \* what is to be stored
  h5pc,     \* the next step of the program
  h5st,     \* no call failed that matters
  h5d,      \* the file was handed to the program
  handles,  \* objects of the library that are open
  file,     \* what is in the file, or NoFile
  stuck,    \* history: handles that could not be closed
  h5faults  \* calls that may still fail
h5Vars == <<recording, h5pc, h5st, h5d, handles, file, stuck, h5faults>>

NoFile == {"no file"}

Call(do, what)  == [do |-> do, what |-> what, on |-> "go on"]
Always(do, what) == [do |-> do, what |-> what, on |-> "cleanup"]
Open(h)   == <<Call("open", h)>>
Set(x)    == <<Call("set", x)>>
Store(x)  == <<Call("store", x)>>
Close(h)  == <<Always("close", h)>>
If(b, steps) == IF b THEN steps ELSE <<>>
-------------------------------------------------------------------------------
bitShift(r) == 8 * r.ssiz - r.prec

map_type(r, h) ==
  Open(h) \o If(bitShift(r) # 0, Set("precision") \o Set("offset"))

scope_h5_space_create(r)  == map_type(r, "type") \o Open("dspace")
scope_h5_space_destroy    == Close("type") \o Close("dspace")

scope_h5_close ==
  Close("scal") \o Close("att") \o Close("dset") \o Close("prop") \o scope_h5_space_destroy \o Close("file")

filters(r) == IF bitShift(r) # 0 THEN {"nbit", "shuffle", "deflate"} ELSE {"shuffle", "deflate"}

scope_h5_create(r) ==
  scope_h5_space_create(r) \o Set("order") \o Open("file") \o Open("prop") \o Set("chunk")
    \o If("nbit" \in filters(r), Set("nbit")) \o Set("shuffle") \o Set("deflate")
    \o Open("dset") \o Open("scal") \o Set("hyperslab")
    \o map_type(r, "mtype") \o Store("data") \o <<Call("close", "mtype")>>
    \o <<Call("hand over", "")>>

\* -- mutant: the space is not closed
AttrSpaceKept(name, nval) ==
  If(nval > 1, Open("aspace")) \o Open("att") \o Store(name) \o Close("att")

\* One value lives in the scalar space, several bring their own.
scope_h5_add_attr(name, nval) ==
  If(nval > 1, Open("aspace")) \o Open("att") \o Store(name) \o Close("att") \o Close("aspace")

scope_h5_add_string_attr(name) ==
  Open("string") \o Set("size") \o scope_h5_add_attr(name, 1) \o Close("string")

scope_h5_add_trigger_source == scope_h5_add_string_attr("trigSrc") \o scope_h5_add_string_attr("trigEdge")

scope_h5_add_scope_parameters(r) ==
  Set("scale known") \o scope_h5_add_attr("scale", r.numChannels)
    \o FlattenSeq([i \in 1 .. 4 |-> scope_h5_add_attr(<<"decimation", "clock", "bits", "npts">>[i], 1)])
    \o scope_h5_add_trigger_source \o scope_h5_add_attr("level", 1)
    \o FlattenSeq([i \in DOMAIN r.known |-> scope_h5_add_attr(r.known[i], r.numChannels)])
    \o scope_h5_add_string_attr("date")

scope_h5_add_acq_parameters(r) == Set("scope_get_params") \o scope_h5_add_scope_parameters(r)

scope_h5_add_bufhdr(r) ==
  If(r.numChannels >= 8, <<Call("refuse", "")>>)
    \o scope_h5_add_attr("overrange", r.numChannels) \o scope_h5_add_attr("auto", 1)

\* main of bbcli from the data that were read to its end.
bbcliStore(r) ==
  scope_h5_create(r) \o scope_h5_add_bufhdr(r) \o scope_h5_add_acq_parameters(r)
    \o If(r.comment, scope_h5_add_string_attr("comment"))
    \o scope_h5_close \o Close("mtype") \o <<Always("unlink", "")>>

\* What a reader of the file finds when nothing went wrong.
Whole(r) ==
  {"data", "scale", "decimation", "clock", "bits", "npts", "trigSrc", "trigEdge", "level",
   "date", "overrange", "auto"} \cup Range(r.known) \cup (IF r.comment THEN {"comment"} ELSE {})
-------------------------------------------------------------------------------
H5Init ==
  /\ recording \in Recordings /\ file \in {NoFile, {"another recording"}}
  /\ h5pc = 1 /\ h5st = TRUE /\ h5d = FALSE
  /\ handles = {} /\ stuck = {} /\ h5faults = MaxH5Faults

H5Programs == [r \in Recordings |-> bbcliStore(r)]
H5Step     == H5Programs[recording][h5pc]
Running  == h5pc <= Len(H5Programs[recording])
Taken == h5st \/ H5Step.on = "cleanup"

\* A step the code does not get to.
Skip ==
  /\ Running /\ ~Taken
  /\ h5pc' = h5pc + 1
  /\ UNCHANGED <<recording, h5st, h5d, handles, file, stuck, h5faults>>

Succeed ==
  /\ Running /\ Taken
  /\ h5pc' = h5pc + 1
  /\ handles' = CASE H5Step.do = "open"  -> handles \cup {H5Step.what}
                  [] H5Step.do = "close" -> handles \ {H5Step.what}
                  [] OTHER             -> handles
  /\ file' = CASE H5Step = Open("file")[1]   -> {}
               [] H5Step.do = "store"        -> file \cup {H5Step.what}
               [] H5Step.do = "unlink" /\ h5d /\ ~h5st -> NoFile
               [] OTHER                    -> file
  /\ h5d' = (h5d \/ H5Step.do = "hand over")
  /\ h5st' = (h5st /\ H5Step.do # "refuse")
  /\ UNCHANGED <<recording, stuck, h5faults>>

\* A call fails: what it was to open is not, and what a cleanup was to close stays
\* open, with a warning. When H5Acreate2 fails the attribute's space is forgotten.
Fail ==
  /\ Running /\ Taken /\ h5faults > 0
  /\ H5Step.do \in {"open", "set", "store", "close"}
  /\ H5Step.do = "close" => H5Step.what \in handles
  /\ h5faults' = h5faults - 1
  /\ h5pc' = h5pc + 1
  /\ h5st' = (h5st /\ H5Step.do = "close")
  /\ stuck' = IF H5Step.do = "close" THEN stuck \cup {H5Step.what} ELSE stuck
  /\ handles' = IF H5Step = Open("att")[1] /\ "aspace" \in handles
                THEN (handles \ {"aspace"}) \cup {"lost"} ELSE handles
  /\ UNCHANGED <<recording, h5d, file>>

H5Next == Skip \/ Succeed \/ Fail
-------------------------------------------------------------------------------
\* bbcli.c 1174-1183: at the end of the program there is a file with the data and
\* everything known about them, or none; except that nothing is unlinked when
\* scope_h5_create fails, so that what was there before may have been replaced by
\* an empty file. What was opened is closed, but for what the library refused to
\* close and the space of an attribute that could not be created.
FileOrNothing ==
  ~Running =>
    /\ h5d => file = IF h5st THEN Whole(recording) ELSE NoFile
    /\ ~h5d => ~h5st
    /\ handles \subseteq stuck \cup {"lost"}
===============================================================================
