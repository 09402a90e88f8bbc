------------------------------- MODULE MCParts -------------------------------
(***************************************************************************)
(* The components that share no item with each other, side by side in one  *)
(* run: the initial state chooses the part that moves, the others stay as  *)
(* they begin.                                                             *)
(***************************************************************************)
EXTENDS Diary, Insights, Limits, Access, Capture, Upload, Watch, RegionTree,
        Pages, Labels, Local, Table, Edge, Voice

VARIABLE part

partsVars == <<part, diaryVars, insightsVars, limitsVars, accessVars, captureVars, uploadVars,
               watchVars, regionVars, pagesVars, labelVars, localVars, tableVars, edgeVars, voiceVars>>

PartNames == {"diary", "insights", "limits", "access", "capture", "upload", "watch",
              "regions", "pages", "labels", "local", "table", "edge", "voice"}

PartsInit ==
    /\ part \in PartNames
    /\ DiaryInit /\ InsightsInit /\ LimitsInit /\ AccessInit /\ CaptureInit
    /\ UploadInit /\ WatchInit /\ RegionInit /\ PagesInit /\ LabelsInit
    /\ LocalInit /\ TableInit /\ EdgeInit /\ VoiceInit
    /\ part = "table" \/ table = [k \in Rows |-> Unused]
    /\ part = "watch" \/ (jobStatus = "queued" /\ shown.status = "queued")

-----------------------------------------------------------------------------
(* One part moves, the rest stays.                                         *)

DiaryMoves ==
    /\ part = "diary" /\ DiaryNext
    /\ UNCHANGED <<part, insightsVars, limitsVars, accessVars, captureVars, uploadVars, watchVars,
                   regionVars, pagesVars, labelVars, localVars, tableVars, edgeVars, voiceVars>>

InsightsMove ==
    /\ part = "insights" /\ InsightsNext
    /\ UNCHANGED <<part, diaryVars, limitsVars, accessVars, captureVars, uploadVars, watchVars,
                   regionVars, pagesVars, labelVars, localVars, tableVars, edgeVars, voiceVars>>

LimitsMove ==
    /\ part = "limits" /\ LimitsNext
    /\ UNCHANGED <<part, diaryVars, insightsVars, accessVars, captureVars, uploadVars, watchVars,
                   regionVars, pagesVars, labelVars, localVars, tableVars, edgeVars, voiceVars>>

AccessMoves ==
    /\ part = "access" /\ AccessNext
    /\ UNCHANGED <<part, diaryVars, insightsVars, limitsVars, captureVars, uploadVars, watchVars,
                   regionVars, pagesVars, labelVars, localVars, tableVars, edgeVars, voiceVars>>

CaptureMoves ==
    /\ part = "capture" /\ CaptureNext
    /\ UNCHANGED <<part, diaryVars, insightsVars, limitsVars, accessVars, uploadVars, watchVars,
                   regionVars, pagesVars, labelVars, localVars, tableVars, edgeVars, voiceVars>>

UploadMoves ==
    /\ part = "upload" /\ UploadNext
    /\ UNCHANGED <<part, diaryVars, insightsVars, limitsVars, accessVars, captureVars, watchVars,
                   regionVars, pagesVars, labelVars, localVars, tableVars, edgeVars, voiceVars>>

WatchMoves ==
    /\ part = "watch" /\ WatchNext
    /\ UNCHANGED <<part, diaryVars, insightsVars, limitsVars, accessVars, captureVars, uploadVars,
                   regionVars, pagesVars, labelVars, localVars, tableVars, edgeVars, voiceVars>>

RegionsMove ==
    /\ part = "regions" /\ RegionNext
    /\ UNCHANGED <<part, diaryVars, insightsVars, limitsVars, accessVars, captureVars, uploadVars,
                   watchVars, pagesVars, labelVars, localVars, tableVars, edgeVars, voiceVars>>

PagesMove ==
    /\ part = "pages" /\ PagesNext
    /\ UNCHANGED <<part, diaryVars, insightsVars, limitsVars, accessVars, captureVars, uploadVars,
                   watchVars, regionVars, labelVars, localVars, tableVars, edgeVars, voiceVars>>

LabelsMove ==
    /\ part = "labels" /\ LabelsNext
    /\ UNCHANGED <<part, diaryVars, insightsVars, limitsVars, accessVars, captureVars, uploadVars,
                   watchVars, regionVars, pagesVars, localVars, tableVars, edgeVars, voiceVars>>

LocalMoves ==
    /\ part = "local" /\ LocalNext
    /\ UNCHANGED <<part, diaryVars, insightsVars, limitsVars, accessVars, captureVars, uploadVars,
                   watchVars, regionVars, pagesVars, labelVars, tableVars, edgeVars, voiceVars>>

TableMoves ==
    /\ part = "table" /\ TableNext
    /\ UNCHANGED <<part, diaryVars, insightsVars, limitsVars, accessVars, captureVars, uploadVars,
                   watchVars, regionVars, pagesVars, labelVars, localVars, edgeVars, voiceVars>>

EdgeMoves ==
    /\ part = "edge" /\ EdgeNext
    /\ UNCHANGED <<part, diaryVars, insightsVars, limitsVars, accessVars, captureVars, uploadVars,
                   watchVars, regionVars, pagesVars, labelVars, localVars, tableVars, voiceVars>>

VoiceMoves ==
    /\ part = "voice" /\ VoiceNext
    /\ UNCHANGED <<part, diaryVars, insightsVars, limitsVars, accessVars, captureVars, uploadVars,
                   watchVars, regionVars, pagesVars, labelVars, localVars, tableVars, edgeVars>>

PartsNext ==
    \/ DiaryMoves \/ InsightsMove \/ LimitsMove \/ AccessMoves \/ CaptureMoves
    \/ UploadMoves \/ WatchMoves \/ RegionsMove \/ PagesMove \/ LabelsMove
    \/ LocalMoves \/ TableMoves \/ EdgeMoves \/ VoiceMoves

PartsSpec == PartsInit /\ [][PartsNext]_partsVars

-----------------------------------------------------------------------------
\* The types of the components' state: the tasting's items and the calls on them, the
\* cards and the profile, the counters, the session, the pages, the table behind them, the sound.
PartsTypeOK ==
    /\ part \in PartNames
    /\ CASE part = "diary" -> DiaryTypeOK
       [] part = "insights" -> InsightsTypeOK
       [] part = "limits" -> LimitsTypeOK
       [] part = "access" -> AccessTypeOK
       [] part = "capture" -> CaptureTypeOK
       [] part = "upload" -> UploadTypeOK
       [] part = "watch" -> WatchTypeOK
       [] part = "regions" -> RegionTypeOK
       [] part = "pages" -> PagesTypeOK
       [] part = "labels" -> LabelsTypeOK
       [] part = "local" -> LocalTypeOK
       [] part = "table" -> TableTypeOK
       [] part = "edge" -> EdgeTypeOK
       [] part = "voice" -> VoiceTypeOK
=============================================================================
