---------------------------- MODULE MCLogDownload ----------------------------
EXTENDS LogDownload
OneLong == <<4, 1>>
==============================================================================
