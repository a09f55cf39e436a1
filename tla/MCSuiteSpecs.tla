---------------------------- MODULE MCSuiteSpecs ----------------------------
(***************************************************************************)
(* Instance of SuiteSpecs: surroundings that load, each in one respect     *)
(* unlike the first, and three that do not.                                *)
(***************************************************************************)
EXTENDS SuiteSpecs

Plain ==
  [env |-> {"token", "cluster", "mc"}, file |-> {}, read |-> "none", spelling |-> "hcp",
   number |-> TRUE, kubeconfig |-> FALSE]

MCSuites ==
  {Plain,
   [Plain EXCEPT !.env = {"token", "cluster"}],
   [Plain EXCEPT !.env = {"token"}, !.kubeconfig = TRUE],
   [Plain EXCEPT !.env = {"client", "clientSecret", "cluster", "probe", "id", "nodes"},
                 !.file = {"issuer", "secret"}, !.read = "ok"],
   [Plain EXCEPT !.env = @ \cup {"secret"}, !.file = {"probe", "id", "issuer"}, !.read = "ok"],
   [Plain EXCEPT !.env = @ \cup {"metrics", "id", "topology"}, !.spelling = "HCP"],
   [Plain EXCEPT !.file = {"topology"}, !.read = "ok", !.spelling = "HCP"],
   [Plain EXCEPT !.env = {"client", "cluster"}],
   [Plain EXCEPT !.env = @ \cup {"nodes"}, !.number = FALSE],
   [Plain EXCEPT !.read = "bad"]}

MCOffers == {Access, Access \ {"issuer"}}

Counted(head, head2h, rate, rate2h, top) ==
  [head |-> head, head2h |-> head2h, rate |-> rate, rate2h |-> rate2h, top |-> top]

MCTsdbs ==
  {Counted(11, 10, 10, 10, Absent), Counted(10, 12, 12, 10, 10), Counted(12, 0, 10, 10, 10),
   Counted(10, Absent, 10, 10, 12)}
=============================================================================
