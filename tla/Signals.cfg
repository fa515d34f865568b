SPECIFICATION Spec
CONSTANTS
  Programs = {"sig1", "sig2", "query_mask", "donthup", "defer_or_not_1", "defer_or_not_2",
    "altstack", "atomic_B", "rtsigs_waiter", "sleeping_beauty_0", "sleeping_beauty_1", "sigq_recv",
    "sigwt_0", "sigwt_1", "handle_segv", "sigtmwtinfo_0", "sigtmwtinfo_1", "segv_altstack",
    "template", "alarm1", "alarm2_rep", "intv_clksimple", "intv3", "runwalk_timer", "react"}
  MaxSignals = 3
INVARIANTS HandlersSound TimeKept ShownRight
PROPERTIES Progress
CHECK_DEADLOCK FALSE
