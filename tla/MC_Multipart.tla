---------------------------- MODULE MC_Multipart ----------------------------
EXTENDS Multipart

=============================================================================
