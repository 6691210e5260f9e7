----------------------------- MODULE MCActions ------------------------------
(***************************************************************************)
(* Values for the constants of Actions.                                    *)
(***************************************************************************)
EXTENDS Actions

\* One container of each service.
MCReplicas == [s \in Services |-> 1]

\* Two containers of each service, as after `docker compose up --scale`.
MCScaled == [s \in Services |-> 2]

\* A chain against the order of the names, two services that share one, and a
\* cycle with a service behind it.
MCGraphs == {{<<1, 2>>, <<2, 3>>}, {<<1, 3>>, <<2, 3>>}, {<<1, 2>>, <<2, 1>>, <<3, 1>>}}

\* No dependencies, and a chain.
MCSimple == {{}, {<<1, 2>>}}
=============================================================================
