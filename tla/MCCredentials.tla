---------------------------- MODULE MCCredentials ----------------------------
EXTENDS Credentials, TLC

RotationSymmetry == Permutations(Rotations)
=============================================================================
