----------------------------- MODULE MCLoadTest -----------------------------
(* Small tests for TLC: two ticks a second, for two seconds.                *)
EXTENDS LoadTest

NoCsv == <<>>
Csv(rows) == <<TRUE>> \o rows   \* a header and rows

Config(profile, start, end, duration, workers, csv) ==
  [target |-> TRUE, profile |-> profile, start |-> start, end |-> end,
   duration |-> duration, workers |-> workers, csv |-> csv]

MCRequests ==
  {[Config("", 2, 0, 2, 1, NoCsv) EXCEPT !.target = FALSE],
   Config("constant", 2, 2, 2, 1, Csv(<<>>)),
   Config("constant", 3, 3, 2, 1, NoCsv),              \* half a request lost per tick
   Config("", 0, 0, 0, 2, Csv(<<TRUE, FALSE>>)),       \* defaults; a row that does not fit
   Config("ramping", 2, 4, 2, 2, NoCsv),
   Config("ramping", 6, -2, 2, 2, Csv(<<TRUE, TRUE, TRUE>>)),
   Config("constant", 1, 1, 2, 0, NoCsv)}              \* below one request a tick

=============================================================================
