------------------------------ MODULE ChessCom ------------------------------
(* What a call to Chess.com can end in: the transport's redirects, the retry  *)
(* loop of the archive client, and the calls built on them - the list of a    *)
(* player's monthly archives, one month, one game's page, one game by its     *)
(* URL.  Bodies are abstracted to whether they parse into what was asked; the *)
(* remote service itself is the set of games played so far.                   *)
EXTENDS Naturals, Sequences, FiniteSets, SequencesExt, Subsequences

CONSTANTS
  Users,         \* public accounts, by normalized name
  Games,         \* games by Chess.com identifier
  Played,        \* Played[g]: who played g, when it ended, whether its PGN is dated
  MonthLength    \* ticks of the clock in a calendar month

ASSUME PlayedAssumption ==
  Played \in [Games -> [players : Seq(Users), at : Nat, dated : BOOLEAN]]
ASSUME MonthAssumption == MonthLength \in Nat \ {0}

MaxRetries == 2
MaxRedirects == 3
MaxRecentMonths == 4

Month(t) == t \div MonthLength
Of(u, g) == u \in ToSet(Played[g].players)

-----------------------------------------------------------------------------
(* One exchange: at most MaxRedirects redirects are followed, each to a host  *)
(* of Chess.com, and none away from the endpoint when the public API is asked.*)
Hops == {"answer", "back", "onward", "away", "nowhere"}
Delivered(api, hops) ==
  \E n \in DOMAIN hops :
     /\ hops[n] = "answer"
     /\ \A i \in 1..(n - 1) : hops[i] \in IF api THEN {"back"} ELSE {"back", "onward"}

\* What the transport throws of its own accord: a failed exchange, not a status.
Thrown == {"moved", "oversized", "timeout", "unreachable"}
Statuses == {"ok", "missing", "gone", "limited", "server", "other"}
Exchange(api, hops, answer) == IF Delivered(api, hops) THEN answer ELSE "moved"
Answers(api) ==
  {Exchange(api, hops, a) : hops \in [1..(MaxRedirects + 1) -> Hops], a \in Thrown \cup Statuses}
ApiAnswers == Answers(TRUE)
PageAnswers == Answers(FALSE)

\* The retry loop: a limited, failing or silent service is asked again twice.
Retried(a) == a \in {"limited", "server", "timeout"}
RequestEnd(answers) ==
  answers[CHOOSE n \in DOMAIN answers :
            /\ ~Retried(answers[n]) \/ n = Len(answers)
            /\ \A i \in 1..(n - 1) : Retried(answers[i])]
RequestEnds == {RequestEnd(s) : s \in [1..(MaxRetries + 1) -> ApiAnswers]}

-----------------------------------------------------------------------------
(* A call ends in "done", "cancelled", "absent" (not found or gone) or        *)
(* "failed".  A stopped token is seen before and after every exchange, but an *)
(* exchange that breaks down throws first.                                    *)
Failure(a) == IF a \in {"missing", "gone"} THEN "absent" ELSE "failed"
Ends(finals, stop) ==
  IF stop THEN {"cancelled"} \cup {Failure(a) : a \in finals \cap (Thrown \ {"moved"})}
  ELSE {Failure(a) : a \in finals \ {"ok"}}
         \cup IF "ok" \in finals THEN {"done", "failed"} ELSE {}   \* failed: the body is malformed
ApiEnds(stop) == Ends(RequestEnds, stop)
PageEnds(stop) == Ends(PageAnswers, stop)

\* The months a player's archive index lists, newest first, at most k of them.
MonthsPlayed(u, t) == {Month(Played[g].at) : g \in {h \in Games : Of(u, h) /\ Played[h].at <= t}}
Discovered(u, t, k) ==
  LET months == MonthsPlayed(u, t)
      n == Cardinality(months)
  IN [i \in 1..(IF k < n THEN k ELSE n) |-> CHOOSE m \in months : Rank(months, m) = n + 1 - i]

\* The games of one month of a player's archive.
MonthPage(u, m, t) == {g \in Games : Of(u, g) /\ Month(Played[g].at) = m /\ Played[g].at <= t}

\* A game's public page names both players, or not.
PagePlayers(g) == {<<>>, Played[g].players}

\* A game by its URL: from the archive of the player it names, whose newest
\* months are read, or else from its public page.
FoundInArchive(g, u, t) ==
  \E i \in 1..Len(Discovered(u, t, MaxRecentMonths)) :
     g \in MonthPage(u, Discovered(u, t, MaxRecentMonths)[i], t)
FromUrlEnds(g, named, t, stop) ==
  (IF \E u \in named : "done" \in ApiEnds(stop) /\ FoundInArchive(g, u, t) THEN {"done"} ELSE {})
     \cup PageEnds(stop)
=============================================================================
