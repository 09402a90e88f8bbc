---------------------------- MODULE PartsProofs ----------------------------
(***************************************************************************)
(* The parts side by side (MCParts): whichever part the initial state      *)
(* chooses, each one's variables take the steps of its own specification   *)
(* or none, so what is proved of a part holds of it here.                  *)
(***************************************************************************)
EXTENDS MCParts, DiaryProofs, AgentProofs, AccessProofs, BrowserProofs, ReadProofs, TLAPS

(* A step moves one part and leaves the variables of the others.           *)
OnePart ==
    /\ [DiaryNext]_diaryVars
    /\ [InsightsNext]_insightsVars
    /\ [LimitsNext]_limitsVars
    /\ [AccessNext]_accessVars
    /\ [CaptureNext]_captureVars
    /\ [UploadNext]_uploadVars
    /\ [WatchNext]_watchVars
    /\ [RegionNext]_regionVars
    /\ [PagesNext]_pagesVars
    /\ [LabelsNext]_labelVars
    /\ [LocalNext]_localVars
    /\ [TableNext]_tableVars
    /\ [EdgeNext]_edgeVars
    /\ [VoiceNext]_voiceVars
    /\ part' = part

LEMMA OnePartMoves == [PartsNext]_partsVars => OnePart
  <1> SUFFICES ASSUME [PartsNext]_partsVars PROVE OnePart OBVIOUS
  <1>1. [DiaryNext]_diaryVars
    BY DEF PartsNext, partsVars,
       DiaryMoves, InsightsMove, LimitsMove, AccessMoves, CaptureMoves, UploadMoves, WatchMoves,
       RegionsMove, PagesMove, LabelsMove, LocalMoves, TableMoves, EdgeMoves, VoiceMoves
  <1>2. [InsightsNext]_insightsVars
    BY DEF PartsNext, partsVars,
       DiaryMoves, InsightsMove, LimitsMove, AccessMoves, CaptureMoves, UploadMoves, WatchMoves,
       RegionsMove, PagesMove, LabelsMove, LocalMoves, TableMoves, EdgeMoves, VoiceMoves
  <1>3. [LimitsNext]_limitsVars
    BY DEF PartsNext, partsVars,
       DiaryMoves, InsightsMove, LimitsMove, AccessMoves, CaptureMoves, UploadMoves, WatchMoves,
       RegionsMove, PagesMove, LabelsMove, LocalMoves, TableMoves, EdgeMoves, VoiceMoves
  <1>4. [AccessNext]_accessVars
    BY DEF PartsNext, partsVars,
       DiaryMoves, InsightsMove, LimitsMove, AccessMoves, CaptureMoves, UploadMoves, WatchMoves,
       RegionsMove, PagesMove, LabelsMove, LocalMoves, TableMoves, EdgeMoves, VoiceMoves
  <1>5. [CaptureNext]_captureVars
    BY DEF PartsNext, partsVars,
       DiaryMoves, InsightsMove, LimitsMove, AccessMoves, CaptureMoves, UploadMoves, WatchMoves,
       RegionsMove, PagesMove, LabelsMove, LocalMoves, TableMoves, EdgeMoves, VoiceMoves
  <1>6. [UploadNext]_uploadVars
    BY DEF PartsNext, partsVars,
       DiaryMoves, InsightsMove, LimitsMove, AccessMoves, CaptureMoves, UploadMoves, WatchMoves,
       RegionsMove, PagesMove, LabelsMove, LocalMoves, TableMoves, EdgeMoves, VoiceMoves
  <1>7. [WatchNext]_watchVars
    BY DEF PartsNext, partsVars,
       DiaryMoves, InsightsMove, LimitsMove, AccessMoves, CaptureMoves, UploadMoves, WatchMoves,
       RegionsMove, PagesMove, LabelsMove, LocalMoves, TableMoves, EdgeMoves, VoiceMoves
  <1>8. [RegionNext]_regionVars
    BY DEF PartsNext, partsVars,
       DiaryMoves, InsightsMove, LimitsMove, AccessMoves, CaptureMoves, UploadMoves, WatchMoves,
       RegionsMove, PagesMove, LabelsMove, LocalMoves, TableMoves, EdgeMoves, VoiceMoves
  <1>9. [PagesNext]_pagesVars
    BY DEF PartsNext, partsVars,
       DiaryMoves, InsightsMove, LimitsMove, AccessMoves, CaptureMoves, UploadMoves, WatchMoves,
       RegionsMove, PagesMove, LabelsMove, LocalMoves, TableMoves, EdgeMoves, VoiceMoves
  <1>10. [LabelsNext]_labelVars
    BY DEF PartsNext, partsVars,
       DiaryMoves, InsightsMove, LimitsMove, AccessMoves, CaptureMoves, UploadMoves, WatchMoves,
       RegionsMove, PagesMove, LabelsMove, LocalMoves, TableMoves, EdgeMoves, VoiceMoves
  <1>11. [LocalNext]_localVars
    BY DEF PartsNext, partsVars,
       DiaryMoves, InsightsMove, LimitsMove, AccessMoves, CaptureMoves, UploadMoves, WatchMoves,
       RegionsMove, PagesMove, LabelsMove, LocalMoves, TableMoves, EdgeMoves, VoiceMoves
  <1>12. [TableNext]_tableVars
    BY DEF PartsNext, partsVars,
       DiaryMoves, InsightsMove, LimitsMove, AccessMoves, CaptureMoves, UploadMoves, WatchMoves,
       RegionsMove, PagesMove, LabelsMove, LocalMoves, TableMoves, EdgeMoves, VoiceMoves
  <1>13. [EdgeNext]_edgeVars
    BY DEF PartsNext, partsVars,
       DiaryMoves, InsightsMove, LimitsMove, AccessMoves, CaptureMoves, UploadMoves, WatchMoves,
       RegionsMove, PagesMove, LabelsMove, LocalMoves, TableMoves, EdgeMoves, VoiceMoves
  <1>14. [VoiceNext]_voiceVars
    BY DEF PartsNext, partsVars,
       DiaryMoves, InsightsMove, LimitsMove, AccessMoves, CaptureMoves, UploadMoves, WatchMoves,
       RegionsMove, PagesMove, LabelsMove, LocalMoves, TableMoves, EdgeMoves, VoiceMoves
  <1>15. part' = part
    BY DEF PartsNext, partsVars,
       DiaryMoves, InsightsMove, LimitsMove, AccessMoves, CaptureMoves, UploadMoves, WatchMoves,
       RegionsMove, PagesMove, LabelsMove, LocalMoves, TableMoves, EdgeMoves, VoiceMoves
  <1> QED
    BY <1>1, <1>2, <1>3, <1>4, <1>5, <1>6, <1>7, <1>8, <1>9, <1>10, <1>11, <1>12, <1>13, <1>14, <1>15
       DEF OnePart

(* Each part runs as its specification says.                               *)
LEMMA PartsRunAlone ==
    PartsSpec =>
        /\ DiarySpec
        /\ InsightsSpec
        /\ LimitsSpec
        /\ AccessSpec
        /\ CaptureSpec
        /\ UploadSpec
        /\ WatchSpec
        /\ RegionSpec
        /\ PagesSpec
        /\ LabelsSpec
        /\ LocalSpec
        /\ TableSpec
        /\ EdgeSpec
        /\ VoiceSpec
        /\ [](part \in PartNames)
  <1>1. PartsSpec => DiarySpec
    <2>1. PartsInit => DiaryInit BY DEF PartsInit
    <2>2. [PartsNext]_partsVars => [DiaryNext]_diaryVars BY OnePartMoves DEF OnePart
    <2> QED BY <2>1, <2>2, PTL DEF PartsSpec, DiarySpec
  <1>2. PartsSpec => InsightsSpec
    <2>1. PartsInit => InsightsInit BY DEF PartsInit
    <2>2. [PartsNext]_partsVars => [InsightsNext]_insightsVars BY OnePartMoves DEF OnePart
    <2> QED BY <2>1, <2>2, PTL DEF PartsSpec, InsightsSpec
  <1>3. PartsSpec => LimitsSpec
    <2>1. PartsInit => LimitsInit BY DEF PartsInit
    <2>2. [PartsNext]_partsVars => [LimitsNext]_limitsVars BY OnePartMoves DEF OnePart
    <2> QED BY <2>1, <2>2, PTL DEF PartsSpec, LimitsSpec
  <1>4. PartsSpec => AccessSpec
    <2>1. PartsInit => AccessInit BY DEF PartsInit
    <2>2. [PartsNext]_partsVars => [AccessNext]_accessVars BY OnePartMoves DEF OnePart
    <2> QED BY <2>1, <2>2, PTL DEF PartsSpec, AccessSpec
  <1>5. PartsSpec => CaptureSpec
    <2>1. PartsInit => CaptureInit BY DEF PartsInit
    <2>2. [PartsNext]_partsVars => [CaptureNext]_captureVars BY OnePartMoves DEF OnePart
    <2> QED BY <2>1, <2>2, PTL DEF PartsSpec, CaptureSpec
  <1>6. PartsSpec => UploadSpec
    <2>1. PartsInit => UploadInit BY DEF PartsInit
    <2>2. [PartsNext]_partsVars => [UploadNext]_uploadVars BY OnePartMoves DEF OnePart
    <2> QED BY <2>1, <2>2, PTL DEF PartsSpec, UploadSpec
  <1>7. PartsSpec => WatchSpec
    <2>1. PartsInit => WatchInit BY DEF PartsInit
    <2>2. [PartsNext]_partsVars => [WatchNext]_watchVars BY OnePartMoves DEF OnePart
    <2> QED BY <2>1, <2>2, PTL DEF PartsSpec, WatchSpec
  <1>8. PartsSpec => RegionSpec
    <2>1. PartsInit => RegionInit BY DEF PartsInit
    <2>2. [PartsNext]_partsVars => [RegionNext]_regionVars BY OnePartMoves DEF OnePart
    <2> QED BY <2>1, <2>2, PTL DEF PartsSpec, RegionSpec
  <1>9. PartsSpec => PagesSpec
    <2>1. PartsInit => PagesInit BY DEF PartsInit
    <2>2. [PartsNext]_partsVars => [PagesNext]_pagesVars BY OnePartMoves DEF OnePart
    <2> QED BY <2>1, <2>2, PTL DEF PartsSpec, PagesSpec
  <1>10. PartsSpec => LabelsSpec
    <2>1. PartsInit => LabelsInit BY DEF PartsInit
    <2>2. [PartsNext]_partsVars => [LabelsNext]_labelVars BY OnePartMoves DEF OnePart
    <2> QED BY <2>1, <2>2, PTL DEF PartsSpec, LabelsSpec
  <1>11. PartsSpec => LocalSpec
    <2>1. PartsInit => LocalInit BY DEF PartsInit
    <2>2. [PartsNext]_partsVars => [LocalNext]_localVars BY OnePartMoves DEF OnePart
    <2> QED BY <2>1, <2>2, PTL DEF PartsSpec, LocalSpec
  <1>12. PartsSpec => TableSpec
    <2>1. PartsInit => TableInit BY DEF PartsInit
    <2>2. [PartsNext]_partsVars => [TableNext]_tableVars BY OnePartMoves DEF OnePart
    <2> QED BY <2>1, <2>2, PTL DEF PartsSpec, TableSpec
  <1>13. PartsSpec => EdgeSpec
    <2>1. PartsInit => EdgeInit BY DEF PartsInit
    <2>2. [PartsNext]_partsVars => [EdgeNext]_edgeVars BY OnePartMoves DEF OnePart
    <2> QED BY <2>1, <2>2, PTL DEF PartsSpec, EdgeSpec
  <1>14. PartsSpec => VoiceSpec
    <2>1. PartsInit => VoiceInit BY DEF PartsInit
    <2>2. [PartsNext]_partsVars => [VoiceNext]_voiceVars BY OnePartMoves DEF OnePart
    <2> QED BY <2>1, <2>2, PTL DEF PartsSpec, VoiceSpec
  <1>15. PartsSpec => [](part \in PartNames)
    <2>1. PartsInit => part \in PartNames BY DEF PartsInit
    <2>2. part \in PartNames /\ [PartsNext]_partsVars => (part \in PartNames)'
      BY OnePartMoves DEF OnePart
    <2> QED BY <2>1, <2>2, PTL DEF PartsSpec
  <1> QED BY <1>1, <1>2, <1>3, <1>4, <1>5, <1>6, <1>7, <1>8, <1>9, <1>10, <1>11, <1>12, <1>13, <1>14, <1>15

(* Whatever the parts do, their state keeps its types, for all values of   *)
(* all constants: the types of the fourteen components that MCParts runs   *)
(* side by side.                                                           *)
THEOREM PartsAreTyped == PartsSpec => []PartsTypeOK
  <1>1. /\ part \in PartNames
        /\ DiaryTypeOK
        /\ InsightsTypeOK
        /\ LimitsTypeOK
        /\ AccessTypeOK
        /\ CaptureTypeOK
        /\ UploadTypeOK
        /\ WatchTypeOK
        /\ RegionTypeOK
        /\ PagesTypeOK
        /\ LabelsTypeOK
        /\ LocalTypeOK
        /\ TableTypeOK
        /\ EdgeTypeOK
        /\ VoiceTypeOK
        => PartsTypeOK
    BY DEF PartsTypeOK, PartNames
  <1> QED BY <1>1, PartsRunAlone, DiaryTypes, InsightsTypes, LimitsTypes, AccessTypes, CaptureTypes,
             UploadTypes, WatchTypes, RegionTypes, PagesTypes, LabelsTypes, LocalTypes, TableTypes,
             EdgeTypes, VoiceTypes, PTL
=============================================================================
