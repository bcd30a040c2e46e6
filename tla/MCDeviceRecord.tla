--------------------------- MODULE MCDeviceRecord ---------------------------
EXTENDS DeviceRecord
=============================================================================
