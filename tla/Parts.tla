--------------------------------- MODULE Parts ---------------------------------
(***************************************************************************)
(* What belongs to a post, with the bounds: the pieces that are attached to*)
(* it, its link, the mentions in it, the buttons and the videos of its row;*)
(* and the settings.  PartsProofs is about them.                           *)
(***************************************************************************)
EXTENDS Integers, Slots

CONSTANTS Clips, Urls, AttachDrafts, AttachChoices, AttachLimit, PreviewDrafts, PreviewFetches,
          MentionText, MentionFound, MentionFetches, ToggleClicks, ToggleFailures, SettingsSteps,
          SettingsCrossings

ASSUME PartBounds ==
    {AttachDrafts, AttachChoices, AttachLimit, PreviewDrafts, PreviewFetches, MentionText,
     MentionFound, MentionFetches, ToggleClicks, ToggleFailures, SettingsSteps,
     SettingsCrossings} \subseteq Nat

\* The dialog is opened once at least: its first draft is the one it begins with.
ASSUME DialogAssumption == PreviewDrafts >= 1

AttachPart == INSTANCE Attach WITH
    MaxDrafts <- AttachDrafts, MaxChoices <- AttachChoices, Limit <- AttachLimit,
    draft <- v1, images <- v2, alts <- v3, video <- v4, gif <- v5, altShown <- v6,
    altText <- v7, hasFile <- v8, reads <- v9, sent <- v10, crossed <- v11

PreviewPart == INSTANCE Preview WITH
    MaxDrafts <- PreviewDrafts, MaxFetches <- PreviewFetches,
    draft <- v1, url <- v2, link <- v3, fetches <- v4, called <- v5, box <- v6, asked <- v7,
    crossed <- v8

MentionPart == INSTANCE Mention WITH
    MaxText <- MentionText, MaxFound <- MentionFound, MaxFetches <- MentionFetches,
    text <- v1, cursor <- v2, start <- v3, end <- v4, timer <- v5, fetches <- v6, calls <- v7,
    found <- v8, active <- v9, isVisible <- v10, late <- v11, eaten <- v12

VideosPart == INSTANCE Videos WITH
    Video <- Clips,
    where <- v1, inView <- v2, registered <- v3, observer <- v4, watch <- v5, playing <- v6,
    sweeping <- v7

TogglePart == INSTANCE Toggle WITH
    MaxClicks <- ToggleClicks, MaxFailures <- ToggleFailures,
    kind <- v1, mark <- v2, label <- v3, count <- v4, metric <- v5, calls <- v6, records <- v7,
    others <- v8, clicks <- v9, failures <- v10, tangled <- v11

SettingsPart == INSTANCE Settings WITH
    MaxSteps <- SettingsSteps, MaxCrossings <- SettingsCrossings,
    tab <- v1, cache <- v2, rendered <- v3, form <- v4, local <- v5, stored <- v6,
    account <- v7, notif <- v8, people <- v9, listed <- v10, calls <- v11, filled <- v12,
    told <- v13, dropped <- v14, n <- v15, crossed <- v16
================================================================================
