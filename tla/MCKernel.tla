------------------------------ MODULE MCKernel ------------------------------
EXTENDS KernelProperties
=============================================================================
