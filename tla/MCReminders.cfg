SPECIFICATION Spec
CONSTANTS
    Requests = {q1, q2}
    Channels = {email, ntfy}
    Email = email
    Nil = Nil
    Triggers = {boot, daily}
    MaxWork = 3
SYMMETRY Symmetry
INVARIANTS
    NoticedOnce
    NothingSwallowed
    SuggestionFollowsReminder
    TimelineIsTrue
CHECK_DEADLOCK FALSE
