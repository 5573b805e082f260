------------------------------ MODULE MCDeploys ------------------------------
EXTENDS Deploys, TLC

CONSTANTS s1

OneService == [d \in Deployments |-> s1]

HandlerSymmetry == Permutations(Handlers)
=============================================================================
