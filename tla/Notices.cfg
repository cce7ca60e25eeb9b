SPECIFICATION MCSpec
CONSTANTS
    MaxPeriod = 2
    MaxChanges = 1
    MaxYear = 2
    MaxStops = 1
    MaxReminderStops = 2
    Docs = {d1, d2}
    None = None
    NotLoaded = NotLoaded
    NoRow = NoRow
    NoTask = NoTask
INVARIANT NoDocumentMissed
PROPERTIES DocumentsSettle DismissalsStay RemindersFollow ReplacementAnnounced
\* After the last stop a closed instance may be all there is.
CHECK_DEADLOCK FALSE
