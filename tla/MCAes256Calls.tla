---------------------------- MODULE MCAes256Calls -----------------------------
EXTENDS Aes256Calls

MCKeyIds == {0, 1}
==============================================================================
