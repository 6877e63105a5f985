--------------------------- MODULE MCIntakePipeline ---------------------------
(***************************************************************************)
(* HACK-1000 among other submissions' items: the longer identity that      *)
(* contains it, and an item of its own in another project.  The files are  *)
(* a good checkout, another article, and what each reader has to refuse.   *)
(***************************************************************************)
EXTENDS IntakePipeline

CONSTANTS u1, u2, c1, c2, p1, r1, r2, H1000, H10000

Plain == {"ana", "ana-ms", "ANA-MS", "demo", "other", "a@b.com", "docs/a.md", "docs/b.md",
          "../a.md", "msft", "Content", "Sandbox", "HACK", "https://x", "http://x"}
MCTexts == Plain \cup {" docs/a.md"}
MCTrimmed == [t \in MCTexts |-> IF t = " docs/a.md" THEN "docs/a.md" ELSE t]
MCFolded == [t \in MCTexts |-> IF t = "ANA-MS" THEN "ana-ms" ELSE t]
MCNames == {"ana", "ana-ms", "ANA-MS", "demo", "other"}

Submitted(owner, name, article) ==
    [submissionNumber |-> 1000,
     contributor |-> [name |-> "ana", email |-> "a@b.com", githubUsername |-> "ana-ms"],
     submissionType |-> "update",
     repository |-> [owner |-> owner, name |-> name], articlePath |-> article,
     proposal |-> [title |-> "ana", summary |-> "demo"]]

Destination(project) ==
    [organization |-> "msft", project |-> project, parentId |-> 599805,
     allowedPrefix |-> "HACK", tags |-> <<"demo", "ana">>]

IntakeConfig(owners) ==
    [defaultApprover |-> "ana", approvalMode |-> "preapproved",
     allowedRepositories |->
         [i \in DOMAIN owners |-> [owner |-> owners[i], name |-> "demo"]]]

StartConfig(url) ==
    [f \in {"senderName", "senderAddress", "subject", "bannerPath", "footerPath",
            "outputDirectory"} \cup StartLinks |->
        IF f \in StartLinks THEN url ELSE "ana"]

MCFirst ==
    [submission |-> Submitted("ana-ms", "demo", " docs/a.md"),
     intakeConfig |-> IntakeConfig(<<"ANA-MS">>),
     azureDevOpsConfig |-> Destination("Content"), startConfig |-> StartConfig("https://x")]

MCCheckouts ==
    {MCFirst,
     [MCFirst EXCEPT !.submission = Submitted("ana-ms", "demo", "docs/b.md")],
     [MCFirst EXCEPT !.submission = Submitted("ana-ms", "other", "docs/a.md")],
     [MCFirst EXCEPT !.submission = Submitted("ana-ms", "demo", "../a.md")],
     [MCFirst EXCEPT !.intakeConfig = IntakeConfig(<<"ana-ms", "ANA-MS">>)],
     [MCFirst EXCEPT !.azureDevOpsConfig = Destination("Sandbox")],
     [MCFirst EXCEPT !.azureDevOpsConfig.parentId = 0],
     [MCFirst EXCEPT !.startConfig = StartConfig("http://x")]}

MCTargets == {[owner |-> "ana-ms", name |-> "demo", articlePath |-> article] :
                  article \in {"docs/a.md", "docs/b.md"}}
here  == PlaceOf(Destination("Content"))
there == PlaceOf(Destination("Sandbox"))
\* An item beside the configured parent's children.
nowhere == [here EXCEPT !.parentId = None]
MCPlaces == {here, there, nowhere}
MCParentless == {nowhere}

MCContains == {<<H1000, H1000>>, <<H10000, H10000>>, <<H10000, H1000>>}

Board(items) == [next |-> 7, items |-> items]
Item(id, s, place) == [id |-> id, submission |-> s, place |-> place]

MCBoards == {Board({Item(4, H10000, here)}),
             Board({Item(5, H1000, there), Item(6, H1000, here)})}

=============================================================================
