---------------------------- MODULE MCCorrelation ----------------------------
(* Two submissions of one contributor, and two pull requests: the first changes *)
(* both articles and names nothing, until a push leaves it the second article   *)
(* alone or an edit names the second submission; the second names the first.    *)
EXTENDS Correlation, TLC

CONSTANTS h1, h2, a1, a2, owner, name, shouted, c1, c2, mail, now

MCIds     == {h1, h2}
MCTexts   == {h1, h2, a1, a2, owner, name, shouted, "ado:create-user-story"}
MCShas    == {c1, c2}
MCLower   == [sha \in MCShas |-> sha]
MCEmails  == {mail}
MCDates   == {now}
MCNumbers == 1..9
MCTarget  == [owner |-> owner, name |-> name]
MCRespelledTarget == [owner |-> shouted, name |-> name]
MCSameAsTarget    == {MCTarget, MCRespelledTarget}

Submission(repository, article, item) ==
    [repository |-> repository, article |-> article, user |-> 5, item |-> item]
TwoArticles == (h1 :> Submission(MCTarget, a1, 7)) @@ (h2 :> Submission(MCTarget, a2, 8))
OneRespelled == h1 :> Submission(MCRespelledTarget, a1, 7)
BothIds == <<h1, h2>>
FirstId == <<h1>>

TwoPulls  == {1, 2}
SecondPull == {2}
MCAuthor  == [p \in TwoPulls |-> 5]
MCNamed   == (1 :> {}) @@ (2 :> {h1})
Tip(commit, paths) == [commit |-> commit, paths |-> paths]
MCFirstTip  == (1 :> Tip(c1, <<a1, a2>>)) @@ (2 :> Tip(c2, <<a1>>))
MCPushes    == (1 :> {Tip(c2, <<a2>>)}) @@ (2 :> {})
OneFirstTip == 2 :> Tip(c2, <<a1>>)
NoPushes    == 2 :> {}
MCRespelled == (1 :> {{h2}}) @@ (2 :> {})
NoRespelled == 2 :> {}
OneNamed    == 2 :> {h1}

=============================================================================
