------------------------------ MODULE MCWebAudio ------------------------------
EXTENDS WebAudio
=============================================================================
