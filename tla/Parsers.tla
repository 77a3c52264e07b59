------------------------------ MODULE Parsers -------------------------------
(***************************************************************************)
(* The elementary stream parsers side by side, as parser_t gives them to   *)
(* mux_es_parsing (ema_mp4_mux.c): one of them runs on a stream of its     *)
(* kind, or, for the kind "asc", the configuration of an AAC stream is set *)
(* from outside and written.                                               *)
(*                                                                         *)
(* Each parser module says with IsStream what its streams are made of.     *)
(* The assumption adds what makes the times of samples add up: a Dolby     *)
(* Digital stream whose frames have one number of blocks, AVC sequence     *)
(* sets of one frame rate, an HEVC stream with a frame rate from somewhere.*)
(***************************************************************************)
EXTENDS Integers, Sequences, FiniteSets

CONSTANTS
    Kinds,              \* the parsers that may be met
    AacStreams, SamplesPerFrame,
    AscConfigs, FreqIndexes,
    DdStreams, MaxStreams, SamplesPerBlock, FullBlocks,
    Ac4Streams, MaxPres, MaxGroups, MaxSubs, Rest,
    AvcStreams, MaxAvcNals, AvcTicks,
    HevcStreams, MaxHevcNals, MaxLsb,
    Ids                 \* of parameter sets, AVC and HEVC

VARIABLES
    kind,
    es, p, out, status,     \* of the parser
    dsi, mode, cfg          \* of the AAC configuration

parserVars == <<es, p, out, status>>
ascVars == <<dsi, mode, cfg>>
vars == <<kind, parserVars, ascVars>>

Aac == INSTANCE ParserAac WITH Streams <- AacStreams
Asc == INSTANCE AacConfig WITH Configs <- AscConfigs
Dd == INSTANCE ParserDd WITH Streams <- DdStreams
Ac4 == INSTANCE ParserAc4 WITH Streams <- Ac4Streams
Avc == INSTANCE ParserAvc WITH Streams <- AvcStreams, MaxNals <- MaxAvcNals, Ticks <- AvcTicks
Hevc == INSTANCE ParserHevc WITH Streams <- HevcStreams, MaxNals <- MaxHevcNals

ASSUME StreamsAssumption ==
    /\ FullBlocks \in Nat \ {0} /\ MaxStreams \in Nat \ {0}
    /\ \A s \in AacStreams : Aac!IsStream(s)
    /\ \A s \in Ac4Streams : Ac4!IsStream(s)
    /\ \A s \in DdStreams : Dd!IsStream(s) /\ Dd!OneBlockCount(s)
    /\ 0 \in Ids /\ \A id \in Ids : id \in Nat
    /\ \A s \in AvcStreams : Avc!IsStream(s)
    /\ Avc!OneFrameRate
    /\ \A s \in HevcStreams : Hevc!IsStream(s)
-----------------------------------------------------------------------------
NoParser == es = << >> /\ p = << >> /\ out = << >> /\ status = "open"

Init ==
    /\ kind \in Kinds
    /\ Asc!Init
    /\ \/ kind = "aac" /\ Aac!Init
       \/ kind = "dd" /\ Dd!Init
       \/ kind = "ac4" /\ Ac4!Init
       \/ kind = "avc" /\ Avc!Init
       \/ kind = "hevc" /\ Hevc!Init
       \/ kind = "asc" /\ NoParser

AacStep == kind = "aac" /\ Aac!Next /\ UNCHANGED <<kind, ascVars>>
DdStep == kind = "dd" /\ Dd!Next /\ UNCHANGED <<kind, ascVars>>
Ac4Step == kind = "ac4" /\ Ac4!Next /\ UNCHANGED <<kind, ascVars>>
AvcStep == kind = "avc" /\ Avc!Next /\ UNCHANGED <<kind, ascVars>>
HevcStep == kind = "hevc" /\ Hevc!Next /\ UNCHANGED <<kind, ascVars>>
AscStep == kind = "asc" /\ Asc!Next /\ UNCHANGED <<kind, parserVars>>

Next == AacStep \/ DdStep \/ Ac4Step \/ AvcStep \/ HevcStep \/ AscStep

Spec == Init /\ [][Next]_vars
-----------------------------------------------------------------------------
(* Samples of the audio parsers are the frames of the stream: AAC frames    *)
(* that a second header confirms, whole Dolby Digital frames of six blocks  *)
(* with all their substreams, AC-4 frames.  None is lost, except that the   *)
(* scans pass over the byte behind an AAC header confirmed by half, or      *)
(* behind a 0xAC of no AC-4 sync word, and a header it may begin.           *)
FramesAreSamples ==
    /\ kind = "aac" => Aac!TypeOK /\ Aac!FramesFollowHeaders /\ Aac!NoFrameLost
    /\ kind = "dd" => Dd!TypeOK /\ Dd!SamplesAreWholeFrames /\ Dd!NothingLost
    /\ kind = "ac4" => Ac4!TypeOK /\ Ac4!FramesAreSamples

(* What is written for decoders describes the stream: the substreams of     *)
(* E-AC-3, and SBR and PS of AAC as the signalling mode wants them.         *)
ConfigDescribesStream ==
    /\ kind = "dd" => Dd!ConfigDescribesFrames
    /\ kind = "asc" => Asc!TypeOK /\ Asc!Signals

(* An AC-4 presentation has the channel mode of the groups it refers to.    *)
ModesOfOwnGroups == kind = "ac4" => Ac4!ModesOfOwnGroups

(* What is written of AC-4 presentations is as long as they are said to be. *)
ConfigSizesAgree == kind = "ac4" => Ac4!ConfigSizesAgree

(* Samples of the video parsers are the access units of the stream.         *)
AccessUnits ==
    /\ kind = "avc" => Avc!TypeOK /\ Avc!AccessUnits
    /\ kind = "hevc" => Hevc!TypeOK /\ Hevc!AccessUnits

(* The description of a sample has the parameter sets its picture uses.     *)
SetsInDescription ==
    /\ kind = "avc" => Avc!SetsInDescription
    /\ kind = "hevc" => Hevc!SetsInDescription

(* HEVC pictures are presented in the order of their counts.                *)
CtsFollowsPoc == kind = "hevc" => Hevc!CtsFollowsPoc

(* "all other sets would stay the same": parser_avc.c and parser_hevc.c on  *)
(* why a description is cloned.                                             *)
SetsCarryOver ==
    /\ kind = "avc" => Avc!SetsCarryOver
    /\ kind = "hevc" => Hevc!SetsCarryOver

(* Every parser keeps the promise to the caller of get_sample.              *)
Skipped == kind \in {"avc", "hevc"} /\ p.failed > 0

Promise == INSTANCE EsParser WITH skipped <- Skipped

ImplementsEsParser == Promise!Spec
=============================================================================
