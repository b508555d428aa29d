----------------------------- MODULE MCCommands -----------------------------
(***************************************************************************)
(* What single commands and requests work out, for TLC: a behaviour is one *)
(* of one part, chosen at first, and the variables v1 .. v9 are that       *)
(* part's.  A part is a module with one choice of its constants.           *)
(***************************************************************************)
EXTENDS MCEnvDefinition, MCProjectLibrary, MCSignalSelectors, MCFlashImage,
        MCRecipe, MCCanFrames, MCDbcSignals

CONSTANTS
  Parts,                                       (* the parts to check       *)
  Definitions, Devices, EnvLibs, Ifaces, Strangers, MaxStarts,
  Loadable, MaxCapacity, BusCapacity, TxCapacity, MaxFrames,
  Instances, Envs, Members, Recipes, Steps, MaxOthers,
  Signals, Selectors, Raws, Catalog, EnvSelectors, MaxSelectors,
  Loads, Top, LinearUnit, SegmentUnit,
  BusMembers, FdMembers, BusFrames, ToolFrames, MaxSent,
  DbcFiles, DbcValues, Width, Weight, Bits, MaxBytes, Classic, MaxEncodes

VARIABLES part, v1, v2, v3, v4, v5, v6, v7, v8, v9, v10
vars == <<part, v1, v2, v3, v4, v5, v6, v7, v8, v9, v10>>

Rest7 == <<part, v8, v9, v10>>
Rest9 == <<part, v10>>

Unused10 == v10 = "unused"
Unused8 == v8 = "unused" /\ v9 = "unused" /\ Unused10

-----------------------------------------------------------------------------
Definition == INSTANCE EnvDefinition WITH
  up <- v1, serving <- v2, phase <- v3, def <- v4, onBus <- v5,
  onRegion <- v6, files <- v7, todo <- v8, steps <- v9,
  Libraries <- EnvLibs, MaxSteps <- MaxStarts

Loading == INSTANCE ProjectLibrary WITH
  phase <- v1, lib <- v2, capacity <- v3, project <- v4, flash <- v5,
  written <- v6, seen <- v7, unsent <- v8, out <- v9, made <- v10,
  Libraries <- Loadable

Selecting == INSTANCE SignalSelectors WITH
  values <- v1, request <- v2, todo <- v3, at <- v4, ids <- v5,
  items <- v6, outcome <- v7

Flash == INSTANCE FlashImage WITH
  blocks <- v1, block <- v2, line <- v3, upper <- v4, memory <- v5,
  regions <- v6, outcome <- v7

(* A recipe, dry or not, while other commands come in between.             *)
Cooking == INSTANCE Recipe WITH
  recipe <- v1, dry <- v2, phase <- v3, todo <- v4, ops <- v5, pc <- v6,
  attached <- v7, inst <- v8, daemons <- v9, others <- v10,
  DryRuns <- {TRUE, FALSE}, Others <- {"close", "start", "clock"}

Can == INSTANCE CanFrames WITH
  backend <- v1, inbox <- v2, latest <- v3, heard <- v4, handed <- v5,
  tick <- v6, sent <- v7, Members <- BusMembers, Frames <- BusFrames

Dbc == INSTANCE DbcSignals WITH
  file <- v1, message <- v2, next <- v3, overlay <- v4, data <- v5,
  len <- v6, fd <- v7, written <- v8, call <- v9, steps <- v10,
  Files <- DbcFiles, Values <- DbcValues, MaxSteps <- MaxEncodes

ASSUME CommandsAssumption ==
  /\ Definition!DefinitionAssumption /\ Loading!LibraryAssumption /\ Cooking!RecipeAssumption
  /\ Selecting!SelectorAssumption /\ Flash!FlashAssumption /\ Can!CanAssumption
  /\ Dbc!DbcAssumption

-----------------------------------------------------------------------------
Init ==
  /\ part \in Parts
  /\ \/ part = "definition" /\ Definition!Init /\ Unused10
     \/ part = "library" /\ Loading!Init
     \/ part = "selectors" /\ Selecting!Init /\ Unused8
     \/ part = "flash" /\ Flash!Init /\ Unused8
     \/ part = "recipe" /\ Cooking!Init
     \/ part = "can" /\ Can!Init /\ Unused8
     \/ part = "dbc" /\ Dbc!Init

Next ==
  \/ part = "definition" /\ Definition!Next /\ UNCHANGED Rest9
  \/ part = "library" /\ Loading!Next /\ UNCHANGED part
  \/ part = "selectors" /\ Selecting!Next /\ UNCHANGED Rest7
  \/ part = "flash" /\ Flash!Next /\ UNCHANGED Rest7
  \/ part = "recipe" /\ Cooking!Next /\ UNCHANGED part
  \/ part = "can" /\ Can!Next /\ UNCHANGED Rest7
  \/ part = "dbc" /\ Dbc!Next /\ UNCHANGED part

(* The process that carries a command out is scheduled; a behaviour is of  *)
(* one part, so one requirement stands for those of all.                   *)
Command ==
  \/ part = "definition" /\ Definition!Work /\ UNCHANGED Rest9
  \/ part = "library" /\ Loading!Load /\ UNCHANGED part
  \/ part = "flash" /\ Flash!Next /\ UNCHANGED Rest7
  \/ part = "recipe" /\ Cooking!Command /\ UNCHANGED part

Spec == Init /\ [][Next]_vars /\ WF_vars(Command)

-----------------------------------------------------------------------------
(* Env definitions: the members of an env that serves can go tick by tick  *)
(* together, its buses and channels are attached as it defines them, and   *)
(* nothing else is on an interface or, of its own instances, at a region;  *)
(* none of those but the channel's writer writes it, and a region has the  *)
(* size its members expect.                                                *)
DefinitionKept ==
  part = "definition" =>
    /\ Definition!TypeOK
    /\ Definition!MembersShareATick
    /\ Definition!BusesAsDefined
    /\ Definition!ChannelsAsDefined
    /\ Definition!NothingElse
    /\ Definition!WritersAsDefined
    /\ Definition!RegionFits
    /\ Definition!StartKept

(* Libraries: the steps of the load accept the good ones and no others,    *)
(* what was loaded is whole, sim_init finds the flash written, and every   *)
(* frame is collected once.                                                *)
LibraryWhole ==
  part = "library" =>
    /\ Loading!TypeOK
    /\ Loading!LoadsTheGood
    /\ Loading!LoadedIsWhole
    /\ Loading!InitFindsFlash
    /\ Loading!FramesCollectedOnce

(* Selectors: a Get is complete or refused, a refused Set leaves a prefix  *)
(* of its writes and a good one the last of each, and an env's columns     *)
(* appear once.                                                            *)
SelectorsExact ==
  part = "selectors" =>
    /\ Selecting!TypeOK
    /\ Selecting!RefusedSetIsAPrefix
    /\ Selecting!SetLeavesTheLast
    /\ Selecting!GetIsComplete
    /\ Selecting!EnvColumnsOnce

(* Bytes: a flash image's regions are what the files say, they stand       *)
(* apart, and only a file with an error that counts is refused; a DBC      *)
(* signal reads the value last asked of it, whatever was written to        *)
(* signals that share no bit with it, and panics only where its sign is    *)
(* the bit below an integer's.                                             *)
BytesExact ==
  /\ part = "flash" =>
       /\ Flash!TypeOK
       /\ Flash!RegionsAreTheImage
       /\ Flash!RegionsStandApart
       /\ Flash!RefusedForCause
  /\ part = "dbc" => Dbc!TypeOK /\ Dbc!ReadsBack

(* CAN: a frame is read as it was sent whatever the backend's form on the  *)
(* wire, libraries get legal frames only, a tick that is refused a frame   *)
(* has put those before it on the bus and none after, and every identifier *)
(* is shown.                                                               *)
CanReadAsSent ==
  part = "can" =>
    /\ Can!TypeOK
    /\ Can!ReadAsSent
    /\ Can!LibrariesGetLegal
    /\ Can!SentUntilRefused
    /\ Can!EveryIdentifierShown

(* Recipes: a loop sets no value outside its range, and however stale the  *)
(* recipe's view of the envs is, their members stay together but for ticks *)
(* that fail.                                                              *)
RecipeKept ==
  part = "recipe" =>
    /\ Cooking!TypeOK
    /\ Cooking!IterationsInRange
    /\ Cooking!LockstepKept

(* What a recipe compiles to is what its steps say, loops and all.         *)
RecipeUnrolled == part = "recipe" => Cooking!CompiledAsMeant

(* A dry run touches nothing, and a Step that is reported done has moved   *)
(* the instance it names.                                                  *)
RecipeSteps ==
  [][part = "recipe" => Cooking!DryRunTouchesNothing /\ Cooking!StepReachesTarget]_vars

(* Every start of an env, load, flash image and recipe comes to an end.    *)
Ended ==
  /\ part = "definition" => Definition!Ended
  /\ part = "library" => Loading!LoadEnded
  /\ part = "flash" => Flash!Ended
  /\ part = "recipe" => Cooking!Ended
CommandsEnd == []<>Ended

=============================================================================
