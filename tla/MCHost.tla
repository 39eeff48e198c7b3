-------------------------------- MODULE MCHost --------------------------------
(* The models of host programs and of the chips they set up, which share no   *)
(* state: a behaviour is one of them, the others stay where they begin.       *)
EXTENDS FlashPrograms, UnitData, Hdf5Sup, Settings, MCI2CHost, Board

VARIABLE part
allVars == <<part, vars, udVars, h5Vars, setVars, i2cVars, bVars>>

\* A flash of 32 bytes in pages of 2, erased in blocks of 4, 16 or 32.
Image(n, k) == [i \in 1 .. n |-> IF i % 3 = k THEN {0} ELSE {1}]
FlashReq(kind, cmds, at, data) == [kind |-> kind, cmds |-> cmds, at |-> at, data |-> data]
MCBlocks   == <<4, 16, 32>>
MCOld      == [a \in Addr |-> {}]
MCRequests ==
  {FlashReq("write", <<>>, 19, Image(2, 1)),
   FlashReq("unit", <<>>, unitDataAddr, Image(3, 0)), FlashReq("unit", <<>>, unitDataAddr, Image(3, 1)),
   FlashReq("clear", <<>>, unitDataAddr, <<>>), FlashReq("get", <<>>, unitDataAddr, <<>>),
   FlashReq("bbcli", <<"Wena", "Erase", "Prog">>, 16, Image(5, 2)),
   FlashReq("bbcli", <<"Erase", "Prog">>, 8, Image(2, 0)),
   FlashReq("bbcli", <<"Wena", "Erase", "Wdis">>, 0, Image(16, 1))}

\* Unit data: numbers of eight bytes, as in the code, so that a byte holds the size of
\* ten channels and not of eleven; the buffer is as long as fifteen need.
Number(last) == [j \in 1 .. 8 |-> IF j = 8 THEN last ELSE IF j = 7 THEN 248 ELSE 0]
MCNaN        == Number(127)
MCZero       == [j \in 1 .. 8 |-> 0]
MCVolt       == [j \in 1 .. 8 |-> IF j < 3 THEN 255 ELSE 10 * j]
MCVolts      == {MCVolt}
MCCounts     == {1, 10, 11, 15, 16}
MCTouched(u) == {Len(u.calData), Len(u.calData) + 1} \ {0}
MCCuts(len)  == {0, 3, 4, 5, 6, 14, 29, len - 1, len} \cap 0 .. len
\* Blocks of earlier software: layout version 1; the calibration behind an item
\* of a kind no longer used, and twice, the second time in place of the end tag.
CalItem(v)      == <<4, 24>> \o v \o MCZero \o MCZero
MCOldBlocks     ==
  {[block |-> <<17, 238, 11, 0, 1, 4, 0, 0, 0, 0, 255>>, holds |-> NoData],
   [block |-> <<18, 237, 37, 0, 1, 4, 9, 9, 9, 9>> \o CalItem(MCVolt) \o <<255>>,
    holds |-> [version |-> 2, calData |-> <<ScopeCalData(MCVolt, MCZero, MCZero)>>]],
   [block |-> <<18, 237, 57, 0>> \o CalItem(MCVolt) \o CalItem(MCNaN) \o <<255>>, holds |-> NoData]}

\* Recordings: with and without unused bits, from boards that can tell all, some or nothing.
MCKeys       == <<"pgaAttDb", "fecAttDb", "fecTerm", "fecCpl", "dacRngHi", "dacVolt">>
MCScopeKeys  == Range(MCKeys)
MCRecordings ==
  [ssiz : {2}, prec : {10, 16}, numChannels : {2}, comment : BOOLEAN,
   known : {<<>>, <<"pgaAttDb", "dacVolt">>, MCKeys}]

\* Three boards, one without a front end card; a file may lose keys, or get a source,
\* numbers of samples and a decimation (17 has no two factors).
MCChannels == <<"A", "B">>
Acq(src, tgo, n, p, d) ==
  [src |-> src, trigOutEn |-> tgo, rising |-> 1, level |-> 5, hysteresis |-> 2,
   nsamples |-> n, npts |-> p, auto |-> 9, decimation |-> d]
State(mem, sup, v, acq) == [freq |-> 130, memSize |-> mem, supports |-> sup, afe |-> Afe(v), acq |-> acq]
AllKeys  == Range(AfeKeys)
MCBoards ==
  {State(8, AllKeys, 11, Acq("CHA", 1, 8, 7, <<3, 20>>)),
   State(4, AllKeys \ {"fecAttDb", "fecCouplingAC", "fecTerminationOhm", "dacRangeHi"}, 12, Acq("CHB", 1, 4, 0, <<1, 1>>)),
   State(8, AllKeys, 13, Acq("EXT", 0, 2, 1, <<16, 4096>>))}
MCEdits ==
  {"src" :> "EXT", "src" :> NoValue, "nsamples" :> NoValue, "npts" :> 6,
   "trigOutEn" :> 1, "decimation" :> 17, "level" :> NoValue, "freq" :> NoValue,
   "dacVolt" :> NoValue, "dacRangeHi" :> [ch \in {"A", "B"} |-> 21]}

\* Boards of the three versions, whose PLL fits as it is or not, with and without offsets.
BoardReq(kind, force, ch, n) == [kind |-> kind, force |-> force, ch |-> ch, n |-> n]
MCConfigs ==
  {[version |-> 2, otpFits |-> FALSE, unit |-> <<2, -1>>], [version |-> 1, otpFits |-> TRUE, unit |-> <<0, 0>>],
   [version |-> 0, otpFits |-> TRUE, unit |-> <<1, 3>>]}
MCBoardRequests ==
  {BoardReq("open", f, 0, 0) : f \in BOOLEAN} \cup {BoardReq("close", f, 0, 0) : f \in BOOLEAN}
    \cup {BoardReq("init", TRUE, 0, 0), BoardReq("off", FALSE, 0, 0), BoardReq("ref", FALSE, 0, 0)}
    \cup {BoardReq("dac", FALSE, 1, v) : v \in {0, -15}}
    \cup {BoardReq("clock", FALSE, 0, n) : n \in {1, 12, 13, 61, 225, 500}}

\* A part that does not run begins in one state.
HostInit ==
  /\ part \in {"flash", "unit data", "hdf5", "settings", "i2c", "board"}
  /\ Init /\ UdInit /\ H5Init /\ SetInit /\ I2cInit /\ BoardInit
  /\ part # "unit data" => block = <<>>
  /\ part # "hdf5" => file = NoFile /\ recording = CHOOSE r \in Recordings : TRUE
  /\ part # "settings" => board = CHOOSE b \in Boards : TRUE
  /\ part # "board" => config = CHOOSE c \in Configs : TRUE
HostNext ==
  \/ part = "flash" /\ Next /\ UNCHANGED <<part, udVars, h5Vars, setVars, i2cVars, bVars>>
  \/ part = "unit data" /\ UdNext /\ UNCHANGED <<part, vars, h5Vars, setVars, i2cVars, bVars>>
  \/ part = "hdf5" /\ H5Next /\ UNCHANGED <<part, vars, udVars, setVars, i2cVars, bVars>>
  \/ part = "settings" /\ SetNext /\ UNCHANGED <<part, vars, udVars, h5Vars, i2cVars, bVars>>
  \/ part = "i2c" /\ I2cNext /\ UNCHANGED <<part, vars, udVars, h5Vars, setVars, bVars>>
  \/ part = "board" /\ BoardNext /\ UNCHANGED <<part, vars, udVars, h5Vars, setVars, i2cVars>>
HostSpec == HostInit /\ [][HostNext]_allVars
===============================================================================
