-------------------------------- MODULE Settings --------------------------------
(***************************************************************************)
(* sw/jsonSup.c, scope_get_params and scope_set_params of sw/scopeSup.c,   *)
(* as bbcli.c uses them: the settings of a board are saved to a file, the  *)
(* file is edited by hand, and loaded on the same or on another board,     *)
(* which may support more or less. What a setting means is not modelled,   *)
(* only which of them interact: the trigger output with an external        *)
(* source, npts with nsamples, both with the size of the memory, and the   *)
(* factors of the decimation, of which the product is saved.               *)
(***************************************************************************)
EXTENDS Integers, Sequences, SequencesExt, FiniteSetsExt, Functions

CONSTANTS
  Channels,     (* the channels of a board, in order                       *)
  Boards,       (* [freq, memSize, supports, afe, acq]: boards and states  *)
  Edits,        (* what a user may change in a file, as functions on some  *)
                (* of its keys; a value NoValue removes the key            *)
  NoValue,      (* NaN, or a negative number where there is no NaN         *)
  Zeroed,         (* what calloc leaves in the parameters of a channel       *)
  MaxSetFaults  (* setters that fail in a behaviour                        *)

ASSUME SettingsAssumption == MaxSetFaults \in Nat

VARIABLES
  board,     \* the board that is open
  jfile,     \* the settings file: keys to values, <<>> if there is none
  settings,  \* the ScopeParams of the program: [afe, acq, mask]
  setting,   \* the setter that is next, 0 if scope_set_params is not under way
  loadSt,    \* "none", "ok" or "err": what the last load returned
  setSt,     \* the same of scope_set_params, "refused" if it set nothing
  setFaults  \* setters that may still fail
setVars == <<board, jfile, settings, setting, loadSt, setSt, setFaults>>

\* The settings of a channel, in the order they are set; strict ones end the
\* program if they fail.
AfeKeys == <<"fullScaleVolt", "fecAttDb", "pgaAttDb", "fecCouplingAC", "fecTerminationOhm",
             "dacRangeHi", "dacVolt">>
Strict  == Range(AfeKeys) \ {"fecTerminationOhm", "dacVolt"}
AcqKeys == {"src", "trigOutEn", "rising", "level", "hysteresis", "nsamples", "npts", "auto", "decimation"}
Afe(v)  == [ch \in Range(Channels) |-> [k \in Range(AfeKeys) |-> v]]
-------------------------------------------------------------------------------
\* Decimations are pairs <<cic0, cic1>>.
acq_auto_decimation(d) ==
  IF d = 1 THEN <<1, 1>>
  ELSE LET fits == {c \in 2 .. 16 : d % c = 0}
       IN  IF d \notin 1 .. 16 * 4096 \/ fits = {} THEN <<>>
           ELSE <<Max(fits), d \div Max(fits)>>

\* acq_set_params as far as its cache goes: mask are the keys of set that count.
acq_set_params(b, set, mask) ==
  LET src  == IF "src" \in mask THEN set.src ELSE b.acq.src
      tgo  == IF "trigOutEn" \in mask THEN set.trigOutEn ELSE b.acq.trigOutEn
      nsm  == IF "nsamples" \in mask THEN Max({1, Min({set.nsamples, b.memSize})}) ELSE b.acq.nsamples
      rest == [k \in AcqKeys |-> IF k \in mask THEN set[k] ELSE b.acq[k]]
  IN  [rest EXCEPT !.trigOutEn = IF src = "EXT" THEN 0 ELSE tgo,
                   !.nsamples  = nsm,
                   !.npts      = IF "npts" \in mask THEN Min({set.npts, nsm - 1}) ELSE @]

\* scope_get_params: what is not supported is not there.
scope_get_params(b) ==
  [afe  |-> [ch \in Range(Channels) |->
              [k \in Range(AfeKeys) |-> IF k \in b.supports THEN b.afe[ch][k] ELSE NoValue]],
   acq  |-> b.acq, mask |-> AcqKeys]

\* An array is saved if every channel has a value.
SavedArrays(p) == {k \in Range(AfeKeys) : \A ch \in Range(Channels) : p.afe[ch][k] # NoValue}

scope_json_save(freq, p) ==
  [k \in {"freq"} \cup p.mask \cup SavedArrays(p) |->
     CASE k = "freq"           -> freq
       [] k = "decimation"     -> p.acq.decimation[1] * p.acq.decimation[2]
       [] k \in Range(AfeKeys) -> [ch \in Range(Channels) |-> p.afe[ch][k]]
       [] OTHER                -> p.acq[k]]
-------------------------------------------------------------------------------
Has(f, k) == k \in DOMAIN f
cpy_afe(f) ==
  [ch \in Range(Channels) |-> [k \in Range(AfeKeys) |-> IF Has(f, k) THEN f[k][ch] ELSE NoValue]]

loadNpts(f, b, nsm) == IF Has(f, "nsamples") THEN Min({f["npts"], nsm - 1}) ELSE f["npts"]

\* The acquisition parameters of a file; old are those the structure held.
loadAcq(f, b, old) ==
  LET src == IF Has(f, "src") THEN f["src"] ELSE old.src
      nsm == IF Has(f, "nsamples") THEN Max({1, Min({f["nsamples"], b.memSize})}) ELSE old.nsamples
  IN  [src        |-> src,
       trigOutEn  |-> IF Has(f, "trigOutEn") THEN (IF src = "EXT" THEN 0 ELSE f["trigOutEn"]) ELSE old.trigOutEn,
       rising     |-> IF Has(f, "rising") THEN f["rising"] ELSE old.rising,
       level      |-> IF Has(f, "level") THEN f["level"] ELSE 0,
       hysteresis |-> IF Has(f, "hysteresis") THEN f["hysteresis"] ELSE 3,
       nsamples   |-> nsm,
       npts       |-> IF Has(f, "npts") THEN loadNpts(f, b, nsm) ELSE old.npts,
       auto       |-> IF Has(f, "auto") THEN f["auto"] ELSE old.auto,
       decimation |-> IF Has(f, "decimation") THEN acq_auto_decimation(f["decimation"]) ELSE old.decimation]

\* Level and hysteresis have one bit in the mask.
loadMask(f) ==
  (AcqKeys \cap DOMAIN f) \cup
    (IF Has(f, "level") \/ Has(f, "hysteresis") THEN {"level", "hysteresis"} ELSE {})

\* scope_alloc_params: calloc, and no acquisition parameter is to be set.
Allocated ==
  [afe |-> Afe(Zeroed),
   acq |-> [src |-> "CHA", trigOutEn |-> 0, rising |-> 0, level |-> 0, hysteresis |-> 0,
            nsamples |-> 0, npts |-> 0, auto |-> 0, decimation |-> <<0, 0>>],
   mask |-> {}]

\* A file without the version is refused at once, one with a decimation that has no
\* two factors after the parameters of the channels were taken over.
scope_json_load(f, b) ==
  IF ~Has(f, "freq") THEN [st |-> "err", p |-> Allocated]
  ELSE IF Has(f, "decimation") /\ acq_auto_decimation(f["decimation"]) = <<>>
       THEN [st |-> "err",
             p |-> [afe |-> cpy_afe(f),
                    acq |-> [loadAcq(f, b, Allocated.acq) EXCEPT !.decimation = <<0, 0>>],
                    mask |-> loadMask(f) \ {"decimation"}]]
       ELSE [st |-> "ok", p |-> [afe |-> cpy_afe(f), acq |-> loadAcq(f, b, Allocated.acq), mask |-> loadMask(f)]]
-------------------------------------------------------------------------------
NoSettings == [afe |-> Afe(NoValue), acq |-> Allocated.acq, mask |-> {}]
SetInit ==
  /\ board \in Boards /\ jfile = <<>> /\ settings = NoSettings
  /\ setting = 0 /\ loadSt = "none" /\ setSt = "none" /\ setFaults = MaxSetFaults

\* scope_json_save of what scope_get_params returns; the program may be another one
\* than the one that loads, and the board as well.
Save ==
  /\ setting = 0 /\ jfile = <<>>
  /\ jfile' = scope_json_save(board.freq, scope_get_params(board))
  /\ UNCHANGED <<board, settings, setting, loadSt, setSt, setFaults>>

\* A text editor, the file is not in use.
Edit(e) ==
  /\ setting = 0 /\ loadSt = "none" /\ jfile # <<>>
  /\ jfile' = Restrict(e @@ jfile, {k \in DOMAIN (e @@ jfile) : (e @@ jfile)[k] # NoValue})
  /\ UNCHANGED <<board, settings, setting, loadSt, setSt, setFaults>>

OtherBoard ==
  /\ setting = 0 /\ jfile # <<>> /\ loadSt = "none"
  /\ board' \in Boards
  /\ UNCHANGED <<jfile, settings, setting, loadSt, setSt, setFaults>>

\* scope_json_load, and scope_set_params whatever that returned. The frequency is
\* put right by the load; without the load it is the board's own.
Load ==
  /\ setting = 0 /\ jfile # <<>> /\ loadSt = "none"
  /\ LET r == scope_json_load(jfile, board)
     IN  settings' = r.p /\ loadSt' = r.st
  /\ setting' = 1 /\ setSt' = "none"
  /\ UNCHANGED <<board, jfile, setFaults>>

Setters == FlattenSeq([i \in DOMAIN Channels |->
             [j \in DOMAIN AfeKeys |-> [ch |-> Channels[i], key |-> AfeKeys[j]]]])

\* ch_set_dbl and ch_set_uns: a value that is not there is not set, one the board
\* does not support is ignored.
SetOne ==
  /\ setting \in DOMAIN Setters
  /\ LET s == Setters[setting]
         v == settings.afe[s.ch][s.key]
     IN  board' = IF v = NoValue \/ s.key \notin board.supports THEN board
                  ELSE [board EXCEPT !.afe[s.ch][s.key] = v]
  /\ setting' = setting + 1
  /\ UNCHANGED <<jfile, settings, loadSt, setSt, setFaults>>

\* -- mutant: no setter ends the program
NeverStrict(s) == FALSE
Strictly(s) == s.key \in Strict

\* A setter fails, with or without an effect. Termination and DAC do not count.
SetFails ==
  /\ setting \in DOMAIN Setters /\ setFaults > 0
  /\ LET s == Setters[setting]
     IN  /\ s.key # "fullScaleVolt" /\ s.key \in board.supports
         /\ settings.afe[s.ch][s.key] # NoValue
         /\ \/ board' = board
            \/ board' = [board EXCEPT !.afe[s.ch][s.key] = settings.afe[s.ch][s.key]]
         /\ IF Strictly(s) THEN setting' = 0 /\ setSt' = "err"
            ELSE setting' = setting + 1 /\ UNCHANGED setSt
  /\ setFaults' = setFaults - 1
  /\ UNCHANGED <<jfile, settings, loadSt>>

SetAcq ==
  /\ setting = Len(Setters) + 1
  /\ board' = [board EXCEPT !.acq = acq_set_params(board, settings.acq, settings.mask)]
  /\ setting' = 0 /\ setSt' = "ok"
  /\ UNCHANGED <<jfile, settings, loadSt, setFaults>>

SetNext ==
  \/ Save \/ (\E e \in Edits : Edit(e)) \/ OtherBoard \/ Load
  \/ SetOne \/ SetFails \/ SetAcq
-------------------------------------------------------------------------------
\* scope_set_params returned 0 for a file that was loaded: what the file says and the
\* board supports is set, termination and DAC voltage if nothing failed; nsamples and
\* npts fit the memory and each other; a board does not drive the line its trigger
\* listens to. Decimations are the same when their products are.
Restored ==
  setSt = "ok" /\ loadSt = "ok" =>
    /\ \A k \in Range(AfeKeys) \cap DOMAIN jfile \cap board.supports, ch \in Range(Channels) :
         (k \in Strict \/ setFaults = MaxSetFaults) => board.afe[ch][k] = jfile[k][ch]
    /\ \A k \in {"src", "rising", "level", "hysteresis", "auto"} \cap DOMAIN jfile : board.acq[k] = jfile[k]
    /\ Has(jfile, "nsamples") => board.acq.nsamples = Min({jfile["nsamples"], board.memSize})
    /\ Has(jfile, "npts") => board.acq.npts = Min({jfile["npts"], board.acq.nsamples - 1})
    /\ Has(jfile, "decimation") => board.acq.decimation[1] * board.acq.decimation[2] = jfile["decimation"]
    /\ Has(jfile, "trigOutEn") /\ board.acq.src # "EXT" => board.acq.trigOutEn = jfile["trigOutEn"]
    /\ board.acq.src = "EXT" => board.acq.trigOutEn = 0
===============================================================================
