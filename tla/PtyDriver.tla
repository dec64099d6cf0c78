------------------------------ MODULE PtyDriver ------------------------------
(***************************************************************************)
(* The driver of the claude TUI (src/src/pty_driver.py): it types into the *)
(* terminal without seeing it.  All it knows of the screen is what its     *)
(* drain task has read into two byte buffers, and these keep the text of   *)
(* screens that are gone.                                                  *)
(*                                                                         *)
(* A screen is a model of what the CLI (external) shows; its text is one   *)
(* mark, the name of the screen, that a buffer holds as a whole or not at  *)
(* all.  The prompt has no mark.                                           *)
(***************************************************************************)
EXTENDS Naturals

CONSTANT Screens   \* what the TUI may show besides its prompt

\* busy: a model call or a tool runs ("esc to interrupt"); modal: the tool
\* permission dialog or the feedback survey; usage: the /usage screen; limit:
\* "You've hit your limit, resets May 27, 12am".
ScreenKinds == {"busy", "modal", "usage", "limit"}

ASSUME PtyAssumption == Screens \subseteq ScreenKinds

VARIABLES
  alive,    \* proc.isalive()
  screen,   \* what the TUI shows
  recent,   \* marks in _recent_chunks (4 KB, cleared by a dismissal)
  tail,     \* marks in _screen_tail (16 KB)
  snippet,  \* a limit text is frozen in _rate_limit_snippet
  passed,   \* the date the limit screen names has gone by
  window    \* in_usage_probe_window()

ptyVars == <<alive, screen, recent, tail, snippet, passed, window>>

PtyTypeOK ==
  /\ alive \in BOOLEAN
  /\ screen \in Screens \cup {"prompt"}
  /\ recent \subseteq tail
  /\ tail \subseteq Screens
  /\ snippet \in BOOLEAN
  /\ passed \in BOOLEAN
  /\ window \in BOOLEAN

PtyInit ==
  /\ alive = TRUE
  /\ screen = "prompt"
  /\ recent = {}
  /\ tail = {}
  /\ snippet = FALSE
  /\ passed = FALSE
  /\ window = FALSE

\* _DISMISS_RULES have anchors on these screens, _RL_SCAN matches on those.
Dismissable == {"modal", "usage"}
ShowsResets == {"usage", "limit"}

\* What an Esc (or the survey's 0) leaves on the screen: the CLI obeys.
Escape == screen' = "prompt"

\* _capture_rate_limit_text over the buffer view: frozen once, never while a
\* /usage probe may be on screen, never when its chrome is in the buffer.
Captured(view) ==
  \/ snippet
  \/ /\ ~window
     /\ view \cap ShowsResets # {}
     /\ "usage" \notin view

-----------------------------------------------------------------------------
\* The CLI changes its screen by itself; only a probe opens /usage.  One limit
\* is met in the life of a worker: its date, once passed, is not shown again.
Shows(s) ==
  /\ alive
  /\ screen # s
  /\ s # "usage"
  /\ s = "limit" => ~passed
  /\ screen' = s
  /\ UNCHANGED <<alive, recent, tail, snippet, passed, window>>

Text == {screen} \ {"prompt"}

\* One chunk read by _drain.  A rule that matches sends its key, unless the
\* last key is less than 0.5 s old (debounced); the dismissal clears the small
\* buffer before the limit scan looks at it.
Drain(debounced) ==
  /\ alive
  /\ tail' = tail \cup Text
  /\ LET seen == recent \cup Text
     IN \/ /\ seen \cap Dismissable # {}
           /\ ~debounced
           /\ recent' = {}
           /\ snippet' = Captured({})
           /\ Escape
        \/ /\ debounced \/ seen \cap Dismissable = {}
           /\ recent' = seen
           /\ snippet' = Captured(seen)
           /\ UNCHANGED screen
  /\ UNCHANGED <<alive, passed, window>>

\* Other output pushes a mark out of the small buffer, and later, once the
\* screen that repainted it is gone, out of the large one.
Scroll(m) ==
  /\ m \in tail
  /\ \/ /\ m \in recent
        /\ recent' = recent \ {m}
        /\ UNCHANGED tail
     \/ /\ m \notin recent
        /\ m # screen
        /\ tail' = tail \ {m}
        /\ UNCHANGED recent
  /\ UNCHANGED <<alive, screen, snippet, passed, window>>

\* The date on the frozen modal goes by; nothing thaws it.
ResetPasses ==
  /\ "limit" \in tail \/ snippet
  /\ screen # "limit"
  /\ ~passed
  /\ passed' = TRUE
  /\ UNCHANGED <<alive, screen, recent, tail, snippet, window>>

\* 20 s after note_usage_probe.
WindowEnds ==
  /\ window
  /\ window' = FALSE
  /\ UNCHANGED <<alive, screen, recent, tail, snippet, passed>>

PtyDies ==
  /\ alive
  /\ alive' = FALSE
  /\ UNCHANGED <<screen, recent, tail, snippet, passed, window>>

-----------------------------------------------------------------------------
\* _force_dismiss_before_trigger: a rule matches in the small buffer or in the
\* large one, or the small one shows the footer of a call in progress.
MustDismiss ==
  \/ recent \cap Dismissable # {}
  \/ tail \cap Dismissable # {}
  \/ "busy" \in recent

\* Mutant: the dismissal clears the other buffer.
ForceDismissTail ==
  /\ MustDismiss
  /\ tail' = {}
  /\ Escape
  /\ UNCHANGED <<alive, recent, snippet, passed, window>>

\* ... and if so, the key is sent and the small buffer cleared; the large one
\* keeps the text.
ForceDismiss ==
  /\ MustDismiss
  /\ recent' = {}
  /\ Escape
  /\ UNCHANGED <<alive, tail, snippet, passed, window>>

\* note_usage_probe and the slash command (which raises without a CLI).
SendUsage ==
  /\ window' = TRUE
  /\ screen' = IF alive THEN "usage" ELSE screen
  /\ UNCHANGED <<alive, recent, tail, snippet, passed>>

\* What the timeout handler of a call finds in the frozen text and the two
\* buffers: a reset date, unless one of them looks like the /usage screen.
ResetFound ==
  /\ ~window
  /\ "usage" \notin tail
  /\ snippet \/ "limit" \in tail
=============================================================================
