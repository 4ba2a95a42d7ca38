\* One request at a time over three days, with end dates and unplaced drafts:
\* the visibility windows, the cron jobs and what must eventually happen.
CONSTANTS
  Requests = {r1}
  MaxDay = 3
  Benefits = {free}
  EndDates = {0, 1, 2}
  Placements = {TRUE, FALSE}
SPECIFICATION FairSpec
PROPERTIES
  EntersUnannounced
  AnnouncedOncePerWindow
  ViewConverges
  EventuallyAnnounced
  ScheduleApplied
