----------------------------- MODULE MCTraining -----------------------------
EXTENDS TrainingProps, MCGameEngine

=============================================================================
